---- MODULE Spec2Model ----
(***************************************************************************)
(* A model of kadiyadb's core: the field index (index/index.go) and the    *)
(* database orchestrator (database.go).  The index is modelled down to the *)
(* bytes of its append log; the orchestrator down to its two epoch caches, *)
(* the epoch directories with their payloads, and the retention task.      *)
(***************************************************************************)
EXTENDS Integers, Sequences, FiniteSets, TLC

VARIABLES
    \* ---- index (index/index.go, type index) ----
    trie,        \* rootNode: path of edge labels -> Item [Fields, Value]
    file,        \* mmapFile: the mapped bytes (Len(file) = mmapFile.Size())
    woff,        \* mmapFile: position of the next Write
    dataSize,    \* idx.dataSize
    allocating,  \* idx.allocating
    ronly,       \* idx.opts.ROnly
    opened,      \* "open" | "failed" (New returned an error) | "closed" (not opened yet)
    session,     \* number of times the file has been opened
    pc,          \* per caller: position inside Put
    cur,         \* per caller: the Put in progress [id, fields, value, bytes]
    bgCheck,     \* background preallocateIfNeeded tasks not yet started
    bgAlloc,     \* background tasks that saw slack < PreallocThresh
    ops,         \* history: finished Puts [id, fields, value, res, session]
    logOrder,    \* history: ids of Puts in the order their records were appended
    addOrder,    \* history: ids of Puts in the order they were added to the trie
    nput,        \* number of Puts started
    nfault,      \* I/O failures the environment may still inject
    lastPut,     \* history: the last Put that returned
    lastQry      \* history: the One, Get or New call made by the last step

VARIABLES
    \* ---- database (database.go, type database) ----
    md,          \* db.metadata [Path, Resolution, Retention, Duration, PayloadSize,
                 \*              SegmentSize, MaxROEpochs, MaxRWEpochs]
    recovery,    \* db.recovery
    roepochs,    \* db.roepochs: [cap, items], items most recently used first
    rwepochs,    \* db.rwepochs
    now,         \* vtimer.Now()
    entries,     \* names of the entries of the directory md.Path
    pathExists,  \* the directory md.Path exists
    dbOpen,      \* Close has not been called
    closedCh,    \* db.closed has been closed
    retPc,       \* position of the enforceRetention goroutine
    store,       \* the epochs' data: [rows, points]
    lastDb,      \* history: the database call made by the last step
    lastTick     \* history: the expire call made by the last step

VARIABLES
    \* ---- wire codec (protocol.pb.go) ----
    wire         \* history: the codec call made by the last step

VARIABLES
    \* ---- concurrent callers of the database and the retention task ----
    epc,         \* per caller: position inside Put, One or Get around getEpoch
    ecall,       \* per caller: the call in progress [ts, ro, epo]
    tick,        \* position of expire inside its loop over the directory
    live,        \* the epoch handles constructed and not closed
    nopen,       \* number of epoch handles constructed
    retired,     \* history: the handles closed by expire
    lastUse      \* history: the use of a handle made by the last step

conVars == <<epc, ecall, tick, live, nopen, retired, lastUse>>

idxVars == <<trie, file, woff, dataSize, allocating, ronly, opened, session, pc,
             cur, bgCheck, bgAlloc, ops, logOrder, addOrder, nput, lastPut, lastQry>>

dbVars == <<md, recovery, roepochs, rwepochs, now, entries, pathExists, dbOpen,
            closedCh, retPc, store, lastDb, lastTick>>

\* nfault is the failure budget of either component's environment
vars == <<idxVars, dbVars, nfault, wire, conVars>>

----------------------------------------------------------------------------
\* Bounds of the model.

\* concurrent callers of Put
NProcs == 2
\* Puts started over a run of one caller
MaxPuts == 3
\* Puts started over a run of concurrent callers
MaxConcPuts == 2
\* Puts started over a run of the querying caller
MaxQryPuts == 3
\* I/O failures injected over a run
MaxFaults == 1
\* times the index file is opened
MaxSessions == 2
\* largest value of the clock
MaxNow == 8
\* largest timestamp a caller passes
MaxTs == 12
\* largest number of epochs after the first that a range read visits
MaxEpochs == 3

Procs == 1..NProcs

----------------------------------------------------------------------------
\* Program constants of index/index.go.

\* NoValue = ^uint32(0): the largest value of the value word, which is scaled
\* from 32 to 16 bits here
NoValue == 65535
\* ItemHeaderSize
ItemHeaderSize == 4
\* PreallocSize: 25 MiB in the source, scaled so that two records fill it
PreallocSize == 24
\* PreallocThresh: 5 MiB in the source, scaled so that, as there, it exceeds the
\* size of any record the callers write
PreallocThresh == 20

\* field strings used by the callers ("" is the wildcard)
FieldStrs == {"", "a", "b"}
\* field tuples the callers pass to Put
PutFields == {<< >>, <<"a">>, <<"b">>, <<"a", "b">>, <<"a", "">>}
\* values the callers pass to Put
PutValues == {0, 1, NoValue}

----------------------------------------------------------------------------
\* Bytes.

Min(a, b) == IF a < b THEN a ELSE b

Zeros(n) == [i \in 1..n |-> 0]

\* binary.LittleEndian: a uint32 as four bytes
LE32BigEndian(n) ==
    << (n \div 16777216) % 256, (n \div 65536) % 256, (n \div 256) % 256, n % 256 >>

LE32(n) ==
    << n % 256, (n \div 256) % 256, (n \div 65536) % 256, (n \div 16777216) % 256 >>

\* binary.LittleEndian: four bytes as a uint32
UnLE32(b) == b[1] + 256 * b[2] + 65536 * b[3] + 16777216 * b[4]

\* the bytes of a string
StrBytes(s) ==
    CASE s = "" -> << >>
      [] s = "a" -> <<97>>
      [] s = "b" -> <<98>>

RECURSIVE Varint(_)
Varint(v) == IF v < 128 THEN <<v>> ELSE <<(v % 128) + 128>> \o Varint(v \div 128)

RECURSIVE MarshalFields(_)
MarshalFields(fs) ==
    IF fs = << >> THEN << >>
    ELSE <<10>> \o Varint(Len(StrBytes(Head(fs)))) \o StrBytes(Head(fs))
         \o MarshalFields(Tail(fs))

\* proto.Marshal(nd.Item): repeated string Fields = 1, uint32 Value = 2 (zero omitted)
Marshal(item) ==
    MarshalFields(item.Fields)
    \o (IF item.Value = 0 THEN << >> ELSE <<16>> \o Varint(item.Value))

\* a varint at position i (1-based) of b: [ok, val, next]
RECURSIVE ReadVarint(_, _, _, _)
ReadVarint(b, i, shift, acc) ==
    IF i > Len(b) THEN [ok |-> FALSE, val |-> 0, next |-> i]
    ELSE IF b[i] < 128
         THEN [ok |-> TRUE, val |-> acc + b[i] * shift, next |-> i + 1]
         ELSE ReadVarint(b, i + 1, shift * 128, acc + (b[i] - 128) * shift)

BytesStrOk(bs) == \E s \in FieldStrs : StrBytes(s) = bs
BytesStr(bs) == CHOOSE s \in FieldStrs : StrBytes(s) = bs

\* proto.Unmarshal(itemData, item): [ok, item]
RECURSIVE UnmarshalFrom(_, _, _)
UnmarshalFrom(b, i, item) ==
    IF i > Len(b) THEN [ok |-> TRUE, item |-> item]
    ELSE LET tag == ReadVarint(b, i, 1, 0) IN
         IF ~tag.ok THEN [ok |-> FALSE, item |-> item]
         ELSE IF tag.val = 10
         THEN LET n == ReadVarint(b, tag.next, 1, 0) IN
              IF ~n.ok \/ n.next + n.val - 1 > Len(b)
                 \/ ~BytesStrOk(SubSeq(b, n.next, n.next + n.val - 1))
              THEN [ok |-> FALSE, item |-> item]
              ELSE UnmarshalFrom(b, n.next + n.val,
                       [item EXCEPT !.Fields =
                           Append(@, BytesStr(SubSeq(b, n.next, n.next + n.val - 1)))])
         ELSE IF tag.val = 16
         THEN LET v == ReadVarint(b, tag.next, 1, 0) IN
              IF ~v.ok THEN [ok |-> FALSE, item |-> item]
              ELSE UnmarshalFrom(b, v.next, [item EXCEPT !.Value = v.val % (NoValue + 1)])
         ELSE [ok |-> FALSE, item |-> item]

Unmarshal(b) == UnmarshalFrom(b, 1, [Fields |-> << >>, Value |-> 0])

----------------------------------------------------------------------------
\* The in-memory trie.

\* rootNode := &node{Item: &Item{}, ...}
EmptyTrie == [p \in {<< >>} |-> [Fields |-> << >>, Value |-> 0]]

\* index.One: the walk over fields, then the value test
RECURSIVE OneWalk(_, _, _)
OneWalk(t, fields, i) ==
    IF i > Len(fields)
    THEN IF t[fields].Value = NoValue
         THEN [err |-> "ErrNoItem", item |-> << >>]
         ELSE [err |-> "nil", item |-> t[fields]]
    ELSE IF fields[i] = "" THEN [err |-> "ErrNoWild", item |-> << >>]
    ELSE IF SubSeq(fields, 1, i) \notin DOMAIN t
         THEN [err |-> "ErrNoItem", item |-> << >>]
    ELSE OneWalk(t, fields, i + 1)

One(t, fields) == OneWalk(t, fields, 1)

\* the loop of index.add with newRootFields := nd.Fields in place of
\* nd.Fields[0 : i+1]
RECURSIVE AddMidWholeFields(_, _, _)
AddMidWholeFields(t, fields, i) ==
    IF i > Len(fields) - 1 THEN t
    ELSE LET p == SubSeq(fields, 1, i) IN
         IF p \in DOMAIN t THEN AddMidWholeFields(t, fields, i + 1)
         ELSE AddMidWholeFields([q \in DOMAIN t \cup {p} |->
                                    IF q = p THEN [Fields |-> fields, Value |-> NoValue]
                                    ELSE t[q]],
                                fields, i + 1)

\* index.add, the loop over nd.Fields[:count-1]: missing nodes get NoValue
RECURSIVE AddMid(_, _, _)
AddMid(t, fields, i) ==
    IF i > Len(fields) - 1 THEN t
    ELSE LET p == SubSeq(fields, 1, i) IN
         IF p \in DOMAIN t THEN AddMid(t, fields, i + 1)
         ELSE AddMid([q \in DOMAIN t \cup {p} |->
                         IF q = p THEN [Fields |-> p, Value |-> NoValue] ELSE t[q]],
                     fields, i + 1)

\* index.add: the leaf's value is updated when the node exists, else nd is linked
Add(t, item) ==
    LET m == AddMid(t, item.Fields, 1) IN
    IF item.Fields \in DOMAIN m
    THEN [m EXCEPT ![item.Fields].Value = item.Value]
    ELSE [q \in DOMAIN m \cup {item.Fields} |-> IF q = item.Fields THEN item ELSE m[q]]

\* the nodes linked in the children map of the node at path p
Children(t, p) ==
    {q \in DOMAIN t : Len(q) = Len(p) + 1 /\ SubSeq(q, 1, Len(p)) = p}

\* find without the loop over root.children
findNodeOnly(t, p) == IF t[p].Value # NoValue THEN <<t[p]>> ELSE << >>

\* index.find: the node's item unless its value is NoValue, then the items of
\* every child's sub-tree; FindEach is the loop over root.children, which
\* visits the children in one of the orders a Go map may give
RECURSIVE find(_, _), FindEach(_, _)
find(t, p) ==
    (IF t[p].Value # NoValue THEN <<t[p]>> ELSE << >>) \o FindEach(t, Children(t, p))

FindEach(t, ps) ==
    IF ps = {} THEN << >>
    ELSE LET q == CHOOSE q \in ps : TRUE IN find(t, q) \o FindEach(t, ps \ {q})

\* Get, lines 259-265: the loop over item.Fields of one item; fields[j] is read
\* first, which is out of range once j passes the query's length
RECURSIVE FilterItem(_, _, _)
FilterItem(fields, item, j) ==
    IF j > Len(item.Fields) THEN "keep"
    ELSE IF j > Len(fields) THEN "panic"
    ELSE IF fields[j] # "" /\ fields[j] # item.Fields[j] THEN "drop"
    ELSE FilterItem(fields, item, j + 1)

\* the position of the first empty field, Len(fields) + 1 without one
FirstWild(fields) ==
    IF \E i \in 1..Len(fields) : fields[i] = ""
    THEN CHOOSE i \in 1..Len(fields) :
           fields[i] = "" /\ \A k \in 1..(i - 1) : fields[k] # ""
    ELSE Len(fields) + 1

\* index.Get: the walk to the first empty field, find, then the filter
Get(t, fields) ==
    LET w == FirstWild(fields)
        needsFilter == \E j \in w..Len(fields) : fields[j] # ""
        root == SubSeq(fields, 1, w - 1)
        items == find(t, root)
    IN IF \E i \in 1..(w - 1) : SubSeq(fields, 1, i) \notin DOMAIN t
       THEN [err |-> "nil", items |-> << >>]
       ELSE IF ~needsFilter THEN [err |-> "nil", items |-> items]
       ELSE IF \E k \in 1..Len(items) : FilterItem(fields, items[k], 1) = "panic"
       THEN [err |-> "panic", items |-> << >>]
       ELSE [err |-> "nil",
             items |-> SelectSeq(items, LAMBDA it : FilterItem(fields, it, 1) = "keep")]

----------------------------------------------------------------------------
\* The memory-mapped file.

\* mmap.Map.Write at position off: the bytes that fit are copied, [file, n]
MmapWrite(f, off, bytes) ==
    LET n == Min(Len(bytes), Len(f) - off) IN
    [file |-> [i \in 1..Len(f) |-> IF off < i /\ i <= off + n THEN bytes[i - off] ELSE f[i]],
     n    |-> n]

\* mmap.Map.Grow(PreallocSize): the file is extended with zeros
Allocate(f) == f \o Zeros(PreallocSize)

\* the position load stopped reading at: behind the zero size it read last
MmapAppendPosBehindRead(loaded) == loaded + ItemHeaderSize

\* the position of the first Write after the log has been replayed
MmapAppendPos(loaded) == loaded

----------------------------------------------------------------------------
\* index.load: replay of the append log.

LoadResult(e, t, ds) == [err |-> e, trie |-> t, dataSize |-> ds]

\* index.load, one iteration per record starting at dataSize = ds:
\* the u32 length, the item bytes, proto.Unmarshal, idx.add, dataSize += 4 + length
RECURSIVE LoadFrom(_, _, _)
LoadFrom(f, ds, t) ==
    LET size == Len(f) IN
    IF size - ds = 0 THEN LoadResult("nil", t, ds)
    ELSE IF size - ds < ItemHeaderSize THEN LoadResult("ErrUnexpectedEOF", t, ds)
    ELSE LET itemSize == UnLE32(SubSeq(f, ds + 1, ds + 4)) IN
         IF itemSize = 0 THEN LoadResult("nil", t, ds)
         ELSE IF itemSize >= size - ds THEN LoadResult("ErrLoad", t, ds)
         ELSE LET avail == size - ds - ItemHeaderSize
                  u == Unmarshal(SubSeq(f, ds + 5, ds + 4 + itemSize)) IN
              IF avail = 0 THEN LoadResult("EOF", t, ds)
              ELSE IF Min(itemSize, avail) # itemSize THEN LoadResult("ErrLoad", t, ds)
              ELSE IF ~u.ok THEN LoadResult("ErrUnmarshal", t, ds)
              ELSE IF u.item.Fields = << >> THEN LoadResult("panic", t, ds)
              ELSE LoadFrom(f, ds + ItemHeaderSize + itemSize, Add(t, u.item))

Load(f) == LoadFrom(f, 0, EmptyTrie)

----------------------------------------------------------------------------
\* index.Put, in the steps other goroutines can interleave with.

Idle(p) == pc[p] = "idle"

\* no query made by the last step
NoQry == [op |-> "none"]

PayloadSize(p) == Len(cur[p].bytes) + ItemHeaderSize

NoPut == [id |-> 0, fields |-> << >>, value |-> 0, bytes |-> << >>,
          preTrie |-> EmptyTrie, preSize |-> 0]

\* a Put returns res: the caller is idle again and the call is recorded
Return(p, c, res) ==
    /\ pc' = [pc EXCEPT ![p] = "idle"]
    /\ cur' = [cur EXCEPT ![p] = NoPut]
    /\ ops' = Append(ops, [id |-> c.id, fields |-> c.fields, value |-> c.value,
                           res |-> res, session |-> session])
    /\ lastPut' = [id |-> c.id, fields |-> c.fields, value |-> c.value, res |-> res,
                   preTrie |-> c.preTrie, preSize |-> c.preSize]

\* Put, lines 163-176: read-only test, wildcard test, idx.One(fields)
PutValidation(fields, value) ==
    IF ronly THEN "ErrWrite"
    ELSE IF \E i \in 1..Len(fields) : fields[i] = "" THEN "ErrNoWild"
    ELSE IF One(trie, fields).err # "ErrNoItem" THEN "ErrExists"
    ELSE "nil"

PutBegin(p, fields, value) ==
    /\ opened = "open"
    /\ Idle(p)
    /\ nput' = nput + 1
    /\ LET c == [id |-> nput + 1, fields |-> fields, value |-> value,
                 bytes |-> Marshal([Fields |-> fields, Value |-> value]),
                 preTrie |-> trie, preSize |-> dataSize]
           v == PutValidation(fields, value)
       IN IF v # "nil"
          THEN Return(p, c, v)
          ELSE /\ pc' = [pc EXCEPT ![p] = "save_check"]
               /\ cur' = [cur EXCEPT ![p] = c]
               /\ UNCHANGED <<ops, lastPut>>
    /\ lastQry' = NoQry
    /\ UNCHANGED <<trie, file, woff, dataSize, allocating, ronly, opened, session,
                   bgCheck, bgAlloc, logOrder, addOrder, nfault, dbVars, wire, conVars>>

\* save, line 377: the unlocked test for a forced allocation
SaveCheck(p) ==
    /\ pc[p] = "save_check"
    /\ pc' = [pc EXCEPT ![p] = IF Len(file) - dataSize - PayloadSize(p) < 0
                               THEN "save_alloc" ELSE "save_pre"]
    /\ lastQry' = NoQry
    /\ UNCHANGED <<trie, file, woff, dataSize, allocating, ronly, opened, session,
                   cur, bgCheck, bgAlloc, ops, logOrder, addOrder, nput, nfault,
                   lastPut, dbVars, wire, conVars>>

\* save, lines 378-389: under allocMutex, the test again and idx.allocate()
SaveAlloc(p) ==
    /\ pc[p] = "save_alloc"
    /\ IF Len(file) - dataSize - PayloadSize(p) < 0
       THEN \/ /\ file' = Allocate(file)
               /\ pc' = [pc EXCEPT ![p] = "save_pre"]
               /\ UNCHANGED <<cur, ops, lastPut, nfault>>
            \/ /\ nfault > 0
               /\ nfault' = nfault - 1
               /\ Return(p, cur[p], "ErrGrow")
               /\ UNCHANGED file
       ELSE /\ pc' = [pc EXCEPT ![p] = "save_pre"]
            /\ UNCHANGED <<file, cur, ops, lastPut, nfault>>
    /\ lastQry' = NoQry
    /\ UNCHANGED <<trie, woff, dataSize, allocating, ronly, opened, session,
                   bgCheck, bgAlloc, logOrder, addOrder, nput, dbVars, wire, conVars>>

\* save, lines 394-395: the test of the allocating flag and of the slack
SavePre(p) ==
    /\ pc[p] = "save_pre"
    /\ pc' = [pc EXCEPT ![p] =
                 IF ~allocating /\ Len(file) - dataSize - PayloadSize(p) < PreallocThresh
                 THEN "save_spawn" ELSE "save_append"]
    /\ lastQry' = NoQry
    /\ UNCHANGED <<trie, file, woff, dataSize, allocating, ronly, opened, session,
                   cur, bgCheck, bgAlloc, ops, logOrder, addOrder, nput, nfault,
                   lastPut, dbVars, wire, conVars>>

\* save, lines 396-397: the flag is set and the background task started
SaveSpawn(p) ==
    /\ pc[p] = "save_spawn"
    /\ allocating' = TRUE
    /\ bgCheck' = bgCheck + 1
    /\ pc' = [pc EXCEPT ![p] = "save_append"]
    /\ lastQry' = NoQry
    /\ UNCHANGED <<trie, file, woff, dataSize, ronly, opened, session, cur, bgAlloc,
                   ops, logOrder, addOrder, nput, nfault, lastPut, dbVars, wire, conVars>>

\* the record header written big-endian
HeaderBytesBigEndian(itemBytes) == LE32BigEndian(Len(itemBytes))

\* save, lines 404-405: binary.Write(idx.mmapFile, binary.LittleEndian, itemSize)
HeaderBytes(itemBytes) == LE32(Len(itemBytes))

\* save, line 403: idx.dataSize += payloadSize, before the writes and whatever they return
SizeAfterAppend(size, payload, written) == size + payload

\* save, lines 400-420: under addMutex, dataSize is advanced, then the header and
\* the item bytes are written; a write may fail
SaveAppend(p) ==
    /\ pc[p] = "save_append"
    /\ LET hdr == MmapWrite(file, woff, HeaderBytes(cur[p].bytes))
           itm == MmapWrite(hdr.file, woff + hdr.n, cur[p].bytes)
       IN \/ \* binary.Write returns an error
             /\ \/ /\ hdr.n < ItemHeaderSize
                   /\ file' = hdr.file
                   /\ woff' = woff + hdr.n
                   /\ UNCHANGED nfault
                \/ /\ nfault > 0
                   /\ nfault' = nfault - 1
                   /\ UNCHANGED <<file, woff>>
             /\ dataSize' = SizeAfterAppend(dataSize, PayloadSize(p), FALSE)
             /\ Return(p, cur[p], "ErrWriteHeader")
             /\ UNCHANGED logOrder
          \/ \* the header is written, mmapFile.Write fails or is short
             /\ hdr.n = ItemHeaderSize
             /\ \/ /\ itm.n < Len(cur[p].bytes)
                   /\ file' = itm.file
                   /\ woff' = woff + hdr.n + itm.n
                   /\ UNCHANGED nfault
                \/ /\ nfault > 0
                   /\ nfault' = nfault - 1
                   /\ file' = hdr.file
                   /\ woff' = woff + hdr.n
             /\ dataSize' = SizeAfterAppend(dataSize, PayloadSize(p), FALSE)
             /\ Return(p, cur[p], "ErrWrite")
             /\ UNCHANGED logOrder
          \/ /\ hdr.n = ItemHeaderSize
             /\ itm.n = Len(cur[p].bytes)
             /\ dataSize' = SizeAfterAppend(dataSize, PayloadSize(p), TRUE)
             /\ file' = itm.file
             /\ woff' = woff + hdr.n + itm.n
             /\ logOrder' = Append(logOrder, cur[p].id)
             /\ pc' = [pc EXCEPT ![p] = "add"]
             /\ UNCHANGED <<cur, ops, lastPut, nfault>>
    /\ lastQry' = NoQry
    /\ UNCHANGED <<trie, allocating, ronly, opened, session, bgCheck, bgAlloc,
                   addOrder, nput, dbVars, wire, conVars>>

\* Put, lines 191-198: idx.add(nd) under addMutex, then the call returns nil
AddStep(p) ==
    /\ pc[p] = "add"
    /\ trie' = Add(trie, [Fields |-> cur[p].fields, Value |-> cur[p].value])
    /\ addOrder' = Append(addOrder, cur[p].id)
    /\ Return(p, cur[p], "nil")
    /\ lastQry' = NoQry
    /\ UNCHANGED <<file, woff, dataSize, allocating, ronly, opened, session, bgCheck,
                   bgAlloc, logOrder, nput, nfault, dbVars, wire, conVars>>

\* preallocateIfNeeded, line 490: the unlocked test of the background task
BgCheck ==
    /\ bgCheck > 0
    /\ bgCheck' = bgCheck - 1
    /\ IF Len(file) - dataSize < PreallocThresh
       THEN bgAlloc' = bgAlloc + 1 /\ UNCHANGED allocating
       ELSE allocating' = FALSE /\ UNCHANGED bgAlloc
    /\ lastQry' = NoQry
    /\ UNCHANGED <<trie, file, woff, dataSize, ronly, opened, session, pc, cur, ops,
                   logOrder, addOrder, nput, nfault, lastPut, dbVars, wire, conVars>>

\* preallocateIfNeeded without line 499: a failed idx.allocate() leaves the flag set
BgAllocKeepsFlag ==
    /\ bgAlloc > 0
    /\ bgAlloc' = bgAlloc - 1
    /\ IF Len(file) - dataSize < PreallocThresh
       THEN \/ file' = Allocate(file) /\ allocating' = FALSE /\ UNCHANGED nfault
            \/ nfault > 0 /\ nfault' = nfault - 1 /\ UNCHANGED <<file, allocating>>
       ELSE allocating' = FALSE /\ UNCHANGED <<file, nfault>>
    /\ lastQry' = NoQry
    /\ UNCHANGED <<trie, woff, dataSize, ronly, opened, session, pc, cur, bgCheck,
                   ops, logOrder, addOrder, nput, lastPut, dbVars, wire, conVars>>

\* preallocateIfNeeded, lines 491-505: under allocMutex, the test again,
\* idx.allocate(), and the flag cleared whether or not it failed
BgAlloc ==
    /\ bgAlloc > 0
    /\ bgAlloc' = bgAlloc - 1
    /\ allocating' = FALSE
    /\ IF Len(file) - dataSize < PreallocThresh
       THEN \/ file' = Allocate(file) /\ UNCHANGED nfault
            \/ nfault > 0 /\ nfault' = nfault - 1 /\ UNCHANGED file
       ELSE UNCHANGED <<file, nfault>>
    /\ lastQry' = NoQry
    /\ UNCHANGED <<trie, woff, dataSize, ronly, opened, session, pc, cur, bgCheck,
                   ops, logOrder, addOrder, nput, lastPut, dbVars, wire, conVars>>

\* Close, then New on the same path: load replays the log, a writable index then
\* runs preallocateIfNeeded
Reopen(ro) ==
    /\ opened = "open"
    /\ \A p \in Procs : Idle(p)
    /\ bgCheck = 0 /\ bgAlloc = 0
    /\ session < MaxSessions
    /\ session' = session + 1
    /\ ronly' = ro
    /\ allocating' = FALSE
    /\ LET l == Load(file) IN
       IF l.err # "nil"
       THEN /\ opened' = "failed"
            /\ UNCHANGED <<trie, file, woff, dataSize, nfault>>
       ELSE /\ trie' = l.trie
            /\ dataSize' = l.dataSize
            /\ woff' = MmapAppendPos(l.dataSize)
            /\ IF ~ro /\ Len(file) - l.dataSize < PreallocThresh
               THEN \/ file' = Allocate(file) /\ opened' = "open" /\ UNCHANGED nfault
                    \/ /\ nfault > 0
                       /\ nfault' = nfault - 1
                       /\ opened' = "failed"
                       /\ UNCHANGED file
               ELSE UNCHANGED <<file, opened, nfault>>
    /\ lastQry' = NoQry
    /\ UNCHANGED <<pc, cur, bgCheck, bgAlloc, ops, logOrder, addOrder, nput, lastPut,
                   dbVars, wire, conVars>>

\* New, lines 141-144: load returned no error
LoadedAnyway(l) == TRUE

\* New, lines 141-144: if err := idx.load(); err != nil { mfile.Close(); return nil, err }
Loaded(l) == l.err = "nil"

\* New on the path of an index file written earlier: load replays the log, a
\* writable index then runs preallocateIfNeeded; the call and what it returned
\* are recorded
IdxNew(ro) ==
    /\ opened = "closed"
    /\ ronly' = ro
    /\ allocating' = FALSE
    /\ LET l == Load(file)
           call == [op |-> "New", file |-> file, ro |-> ro, load |-> l.err,
                    dataSize |-> l.dataSize]
       IN IF ~Loaded(l)
          THEN /\ opened' = "failed"
               /\ lastQry' = call @@ [err |-> l.err]
               /\ UNCHANGED <<trie, file, woff, dataSize, nfault>>
          ELSE /\ trie' = l.trie
               /\ dataSize' = l.dataSize
               /\ woff' = MmapAppendPos(l.dataSize)
               /\ IF ~ro /\ Len(file) - l.dataSize < PreallocThresh
                  THEN \/ /\ file' = Allocate(file)
                          /\ opened' = "open"
                          /\ lastQry' = call @@ [err |-> "nil"]
                          /\ UNCHANGED nfault
                       \/ /\ nfault > 0
                          /\ nfault' = nfault - 1
                          /\ opened' = "failed"
                          /\ lastQry' = call @@ [err |-> "ErrGrow"]
                          /\ UNCHANGED file
                  ELSE /\ opened' = "open"
                       /\ lastQry' = call @@ [err |-> "nil"]
                       /\ UNCHANGED <<file, nfault>>
    /\ UNCHANGED <<session, pc, cur, bgCheck, bgAlloc, ops, logOrder, addOrder, nput,
                   lastPut, dbVars, wire, conVars>>

\* a call of index.One by a caller that has no Put in progress
OneCall(p, fields) ==
    /\ opened = "open"
    /\ Idle(p)
    /\ lastQry' = [op |-> "One", fields |-> fields, err |-> One(trie, fields).err,
                   items |-> IF One(trie, fields).err = "nil"
                             THEN <<One(trie, fields).item>> ELSE << >>]
    /\ UNCHANGED <<trie, file, woff, dataSize, allocating, ronly, opened, session,
                   pc, cur, bgCheck, bgAlloc, ops, logOrder, addOrder, nput, nfault,
                   lastPut, dbVars, wire, conVars>>

\* a call of index.Get by a caller that has no Put in progress
GetCall(p, fields) ==
    /\ opened = "open"
    /\ Idle(p)
    /\ lastQry' = [op |-> "Get", fields |-> fields, err |-> Get(trie, fields).err,
                   items |-> Get(trie, fields).items]
    /\ UNCHANGED <<trie, file, woff, dataSize, allocating, ronly, opened, session,
                   pc, cur, bgCheck, bgAlloc, ops, logOrder, addOrder, nput, nfault,
                   lastPut, dbVars, wire, conVars>>

----------------------------------------------------------------------------
\* Go's integer arithmetic and strconv.

\* a % b for b > 0: the remainder takes the sign of a
GoMod(a, b) == IF a >= 0 THEN a % b ELSE -((-a) % b)

\* a / b for b > 0: the quotient is truncated toward zero
GoDiv(a, b) == IF a >= 0 THEN a \div b ELSE -((-a) \div b)

\* the largest multiple of d that is <= a
FloorTo(a, d) == a - (a % d)

DigitChars == <<"0", "1", "2", "3", "4", "5", "6", "7", "8", "9">>

IsDigit(c) == \E i \in 1..10 : DigitChars[i] = c

DigitVal(c) == (CHOOSE i \in 1..10 : DigitChars[i] = c) - 1

RECURSIVE ItoaNat(_)
ItoaNat(n) ==
    IF n < 10 THEN <<DigitChars[n + 1]>>
    ELSE ItoaNat(n \div 10) \o <<DigitChars[(n % 10) + 1]>>

\* strconv.Itoa: the decimal characters of n
Itoa(n) == IF n < 0 THEN <<"-">> \o ItoaNat(-n) ELSE ItoaNat(n)

RECURSIVE DigitsVal(_, _)
DigitsVal(cs, acc) ==
    IF cs = << >> THEN acc ELSE DigitsVal(Tail(cs), 10 * acc + DigitVal(Head(cs)))

\* strconv.ParseInt(s, 10, 64): an optional sign, then at least one digit
ParseInt(cs) ==
    LET signed == cs # << >> /\ Head(cs) \in {"+", "-"}
        body == IF signed THEN Tail(cs) ELSE cs
    IN IF body = << >> \/ \E i \in 1..Len(body) : ~IsDigit(body[i])
       THEN [ok |-> FALSE, val |-> 0]
       ELSE [ok |-> TRUE,
             val |-> IF signed /\ Head(cs) = "-" THEN -DigitsVal(body, 0)
                     ELSE DigitsVal(body, 0)]

\* A directory entry's name is a sequence of characters, the prefix "epoch_"
\* being one element.
EpochPrefix == "epoch_"

\* EpochPrefix + strconv.Itoa(int(ts))
EpochName(ts) == <<EpochPrefix>> \o Itoa(ts)

\* strings.HasPrefix(fname, EpochPrefix)
HasPrefix(name) == name # << >> /\ Head(name) = EpochPrefix

\* strings.TrimPrefix(fname, EpochPrefix)
TrimPrefix(name) == IF HasPrefix(name) THEN Tail(name) ELSE name

----------------------------------------------------------------------------
\* The cache of epoch handles (Cache, NewCache).

NoEpoch == [ts |-> -1, ronly |-> FALSE]

NewCache(n) == [cap |-> n, items |-> << >>]

CacheKeys(c) == {c.items[i].key : i \in 1..Len(c.items)}

CacheIndex(c, k) == CHOOSE i \in 1..Len(c.items) : c.items[i].key = k

Without(seq, i) == SubSeq(seq, 1, i - 1) \o SubSeq(seq, i + 1, Len(seq))

\* Get: the handle, moved to the most recently used position
CacheGet(c, k) ==
    IF k \in CacheKeys(c)
    THEN LET i == CacheIndex(c, k) IN
         [ok |-> TRUE, epo |-> c.items[i].epo,
          cache |-> [c EXCEPT !.items = <<c.items[i]>> \o Without(c.items, i)]]
    ELSE [ok |-> FALSE, epo |-> NoEpoch, cache |-> c]

\* the least recently used entries beyond n
Overflow(items, n) ==
    IF Len(items) > n THEN [i \in 1..(Len(items) - n) |-> items[n + i].epo] ELSE << >>

Keep(items, n) == IF Len(items) > n THEN SubSeq(items, 1, n) ELSE items

\* Add: inserted as most recently used; what exceeds the capacity is evicted
CacheAdd(c, k, v) ==
    LET ins == <<[key |-> k, epo |-> v]>> \o c.items IN
    [cache |-> [c EXCEPT !.items = Keep(ins, c.cap)], evicted |-> Overflow(ins, c.cap)]

\* Del: removed and returned, the eviction callback is not called
CacheDel(c, k) ==
    IF k \in CacheKeys(c)
    THEN LET i == CacheIndex(c, k) IN
         [ok |-> TRUE, epo |-> c.items[i].epo,
          cache |-> [c EXCEPT !.items = Without(c.items, i)]]
    ELSE [ok |-> FALSE, epo |-> NoEpoch, cache |-> c]

\* Resize: the capacity is n; the least recently used entries beyond it are evicted
CacheResize(c, n) ==
    [cache |-> [cap |-> n, items |-> Keep(c.items, n)], evicted |-> Overflow(c.items, n)]

\* Purge: every entry is evicted
CachePurge(c) ==
    [cache |-> [c EXCEPT !.items = << >>], evicted |-> Overflow(c.items, 0)]

----------------------------------------------------------------------------
\* database.getEpoch.

\* what a call reads and changes: the two caches, the directory, and the
\* handles closed by the call
Bundle == [ro |-> roepochs, rw |-> rwepochs, entries |-> entries,
           exists |-> pathExists, store |-> store, closed |-> << >>]

SetCache(S, ro, c) == IF ro THEN [S EXCEPT !.ro = c] ELSE [S EXCEPT !.rw = c]

\* the data in the epochs' directories: rows holds <<ts, fields>> for every field set the
\* index of epoch ts knows, points the payloads [ts, fields, pos, val] that
\* are not all-zero (the block store starts all-zero)
EmptyStore == [rows |-> {}, points |-> {}]

\* the store without the data of the epochs in tss
DropAll(st, tss) ==
    [rows |-> {r \in st.rows : r[1] \notin tss},
     points |-> {p \in st.points : p.ts \notin tss}]

\* NewEpoch(options): a read-write epoch creates its directory (empty when it
\* was missing), a read-only one needs it
NewEpoch(S, ts, ro) ==
    IF ro
    THEN [ok |-> S.exists /\ EpochName(ts) \in S.entries,
          epo |-> [ts |-> ts, ronly |-> TRUE], S |-> S]
    ELSE [ok |-> TRUE, epo |-> [ts |-> ts, ronly |-> FALSE],
          S |-> [S EXCEPT !.entries = @ \cup {EpochName(ts)}, !.exists = TRUE,
                          !.store = IF S.exists /\ EpochName(ts) \in S.entries
                                    THEN @ ELSE DropAll(@, {ts})]]

\* the payload stored at a position of a row, all-zero when none was written
PointAt(st, ts, fields, pos) ==
    IF \E p \in st.points : p.ts = ts /\ p.fields = fields /\ p.pos = pos
    THEN (CHOOSE p \in st.points : p.ts = ts /\ p.fields = fields /\ p.pos = pos).val
    ELSE Zeros(md.PayloadSize)

\* Epoch.Put(pos, fields, value): the row of the field set is found or created
\* and the payload written at the position
EpochPut(st, ts, pos, fields, value) ==
    [rows |-> st.rows \cup {<<ts, fields>>},
     points |-> {p \in st.points : ~(p.ts = ts /\ p.fields = fields /\ p.pos = pos)}
                \cup IF value = Zeros(Len(value)) THEN {}
                     ELSE {[ts |-> ts, fields |-> fields, pos |-> pos, val |-> value]}]

\* the payloads of a row at the positions startPos .. endPos - 1
RowSlice(st, ts, fields, startPos, endPos) ==
    [i \in 1..(endPos - startPos) |-> PointAt(st, ts, fields, startPos + i - 1)]

\* Epoch.One(startPos, endPos, fields): [err, out]
EpochOne(st, ts, startPos, endPos, fields) ==
    IF <<ts, fields>> \notin st.rows THEN [err |-> "ErrNoItem", out |-> << >>]
    ELSE [err |-> "nil", out |-> RowSlice(st, ts, fields, startPos, endPos)]

\* a field set answers a query: equal before the first empty field, and equal
\* at every later non-empty field of the query
EpochMatch(query, fields) ==
    LET wild == {i \in 1..Len(query) : query[i] = << >>}
        w == IF wild = {} THEN Len(query) + 1
             ELSE CHOOSE i \in wild : \A k \in wild : i <= k
    IN \A j \in 1..Len(query) :
         (j < w \/ query[j] # << >>) => (j <= Len(fields) /\ fields[j] = query[j])

\* Epoch.Get(startPos, endPos, fields): the matching field sets with their payloads
EpochGet(st, ts, startPos, endPos, query) ==
    {[fields |-> r[2], points |-> RowSlice(st, ts, r[2], startPos, endPos)] :
       r \in {x \in st.rows : x[1] = ts /\ EpochMatch(query, x[2])}}

\* ts -= ts % md.Duration
EpochStart(t) == t - GoMod(t, md.Duration)

\* min := now - int64(md.MaxRWEpochs-1)*md.Duration
MinRW == EpochStart(now) - (md.MaxRWEpochs - 1) * md.Duration

\* the horizon drawn one epoch too far
MaxRWTooFar == EpochStart(now) + 2 * md.Duration

\* max := now + md.Duration
MaxRW == EpochStart(now) + md.Duration

\* ro := ts < min, without the recovery test
IsReadOnlyByAge(ts) == ts < MinRW

\* ro := ts < min, forced to false in recovery mode
IsReadOnly(ts) == IF recovery THEN FALSE ELSE ts < MinRW

\* getEpoch(ts): [err, epo, S]
GetEpoch(S, t) ==
    LET ts == EpochStart(t)
        ro == IsReadOnly(ts)
        c == IF ro THEN S.ro ELSE S.rw
        g == CacheGet(c, ts)
        o == NewEpoch(S, ts, ro)
        a == CacheAdd(c, ts, o.epo)
    IN IF ts >= MaxRW THEN [err |-> "ErrFuture", epo |-> NoEpoch, S |-> S]
       ELSE IF g.ok THEN [err |-> "nil", epo |-> g.epo, S |-> SetCache(S, ro, g.cache)]
       ELSE IF ~o.ok THEN [err |-> "ErrOpen", epo |-> NoEpoch, S |-> S]
       ELSE [err |-> "nil", epo |-> o.epo,
             S |-> [SetCache(o.S, ro, a.cache) EXCEPT !.closed = @ \o a.evicted]]

\* the caches and the directory after a call
Commit(S) ==
    /\ roepochs' = S.ro
    /\ rwepochs' = S.rw
    /\ entries' = S.entries
    /\ pathExists' = S.exists
    /\ store' = S.store

NoCall == [op |-> "none"]

NoTick == [op |-> "none"]

NoWire == [op |-> "none"]

\* no handle used by the last step
NoUse == [op |-> "none"]

\* no call of a concurrent caller in progress
NoEpoCall == [ts |-> -1, ro |-> FALSE, epo |-> NoEpoch]

\* expire is not inside its loop
TickIdle == [pc |-> "idle"]

\* no concurrent caller, no tick in steps
ConIdle ==
    /\ epc = [p \in Procs |-> "idle"]
    /\ ecall = [p \in Procs |-> NoEpoCall]
    /\ tick = TickIdle
    /\ live = {}
    /\ nopen = 0
    /\ retired = {}
    /\ lastUse = NoUse


----------------------------------------------------------------------------
\* The calls of the Database interface.

\* Put(ts, fields, value): the timestamp is floored to the resolution, the epoch
\* is selected, and epo.Put gets the position; a read-only epoch refuses the write
DbPut(t, fields, value) ==
    /\ LET ts == t - GoMod(t, md.Resolution)
           g == GetEpoch(Bundle, ts)
           trmStart == ts - GoMod(ts, md.Duration)
           pos == GoDiv(ts - trmStart, md.Resolution)
           err == IF g.err # "nil" THEN g.err
                  ELSE IF g.epo.ronly THEN "ErrWrite" ELSE "nil"
       IN /\ Commit(IF err = "nil"
                    THEN [g.S EXCEPT !.store = EpochPut(@, g.epo.ts, pos, fields, value)]
                    ELSE g.S)
          /\ lastDb' = [op |-> "Put", ts |-> t, epo |-> g.epo, pos |-> pos, err |-> err]
    /\ lastTick' = NoTick
    /\ UNCHANGED <<md, recovery, now, dbOpen, closedCh, retPc, idxVars, wire, conVars, nfault>>

\* the loop of One and Get over the epochs from ts to epoLast: an epoch that
\* fails to open is skipped
RECURSIVE RangeLoop(_, _, _)
RangeLoop(S, ts, epoLast) ==
    IF ts > epoLast THEN S
    ELSE RangeLoop(GetEpoch(S, ts).S, ts + md.Duration, epoLast)

\* One and Get with the range test made before the flooring
RangeReadRaw(start0, end0) ==
    LET start == start0 - GoMod(start0, md.Resolution)
        end == end0 - GoMod(end0, md.Resolution)
        epoFirst == start - GoMod(start, md.Duration)
        epoLast == end - GoMod(end, md.Duration)
    IN IF end0 <= start0 THEN [err |-> "ErrRange", S |-> Bundle]
       ELSE [err |-> "nil", S |-> RangeLoop(Bundle, epoFirst, epoLast)]

\* One and Get, up to the loop: [err, S]
RangeRead(start0, end0) ==
    LET start == start0 - GoMod(start0, md.Resolution)
        end == end0 - GoMod(end0, md.Resolution)
        epoFirst == start - GoMod(start, md.Duration)
        epoLast == end - GoMod(end, md.Duration)
    IN IF end <= start THEN [err |-> "ErrRange", S |-> Bundle]
       ELSE [err |-> "nil", S |-> RangeLoop(Bundle, epoFirst, epoLast)]

\* the window of a range read, floored to the resolution, its first and last
\* epoch and its number of points
RangeQuery(start0, end0, fields) ==
    LET start == start0 - GoMod(start0, md.Resolution)
        end == end0 - GoMod(end0, md.Resolution)
    IN [start |-> start, end |-> end, fields |-> fields,
        epoFirst |-> start - GoMod(start, md.Duration),
        epoLast |-> end - GoMod(end, md.Duration),
        pcount |-> GoDiv(end - start, md.Resolution)]

\* the part of the window inside the epoch at ts: the positions asked of the
\* epoch and the slice of the output they go to
EpochWindow(q, ts) ==
    LET trmStart == IF ts = q.epoFirst THEN q.start ELSE ts
        trmEnd == IF ts = q.epoLast THEN q.end ELSE ts + md.Duration
        numPoints == GoDiv(trmEnd - trmStart, md.Resolution)
        startPos == GoDiv(GoMod(trmStart, md.Duration), md.Resolution)
    IN [ts |-> ts, startPos |-> startPos, endPos |-> startPos + numPoints,
        recStart |-> GoDiv(trmStart - q.start, md.Resolution),
        recEnd |-> GoDiv(trmEnd - q.start, md.Resolution)]

\* copy(dst[recStart:recEnd], src)
Copy(dst, recStart, recEnd, src) ==
    [i \in 1..Len(dst) |->
        IF recStart < i /\ i <= recEnd /\ i - recStart <= Len(src)
        THEN src[i - recStart] ELSE dst[i]]

\* the loop of One: [out, fetches]; fetches records, for every epoch of the
\* loop, the error of getEpoch or epo.One and the window asked
RECURSIVE OneLoop(_, _, _, _)
OneLoop(S, q, ts, acc) ==
    IF ts > q.epoLast THEN acc
    ELSE LET g == GetEpoch(S, ts)
             w == EpochWindow(q, ts)
             r == EpochOne(g.S.store, ts, w.startPos, w.endPos, q.fields)
         IN IF g.err # "nil"
            THEN OneLoop(g.S, q, ts + md.Duration,
                         [acc EXCEPT !.fetches = Append(@, [ts |-> ts, err |-> g.err])])
            ELSE IF r.err # "nil"
            THEN OneLoop(g.S, q, ts + md.Duration,
                         [acc EXCEPT !.fetches = Append(@, [ts |-> ts, err |-> r.err,
                                                            win |-> w])])
            ELSE OneLoop(g.S, q, ts + md.Duration,
                         [out |-> Copy(acc.out, w.recStart, w.recEnd, r.out),
                          fetches |-> Append(acc.fetches,
                                             [ts |-> ts, err |-> "nil", win |-> w])])

\* One(start, end, fields): out = make([][]byte, pcount) holds nil payloads
DbOne(start, end, fields) ==
    /\ LET r == RangeRead(start, end)
           q == RangeQuery(start, end, fields)
           l == OneLoop(Bundle, q, q.epoFirst,
                        [out |-> [i \in 1..q.pcount |-> << >>], fetches |-> << >>])
       IN /\ Commit(r.S)
          /\ lastDb' = IF r.err # "nil"
                       THEN [op |-> "One", start |-> start, end |-> end,
                             fields |-> fields, err |-> r.err]
                       ELSE [op |-> "One", start |-> start, end |-> end,
                             fields |-> fields, err |-> "nil", out |-> l.out,
                             fetches |-> l.fetches]
    /\ lastTick' = NoTick
    /\ UNCHANGED <<md, recovery, now, dbOpen, closedCh, retPc, idxVars, wire, conVars, nfault>>

\* strings.Join(a, sep), strings being sequences of characters
RECURSIVE Join(_, _)
Join(a, sep) ==
    IF Len(a) = 0 THEN << >>
    ELSE IF Len(a) = 1 THEN a[1]
    ELSE a[1] \o sep \o Join(Tail(a), sep)

\* key := strings.Join(item.Fields, `-`)
FieldsKey(fields) == Join(fields, <<"-">>)

\* the elements of a set in one order, or in the reverse order
RECURSIVE InOrder(_, _)
InOrder(set, rev) ==
    IF set = {} THEN << >>
    ELSE LET x == CHOOSE x \in set : TRUE
         IN IF rev THEN Append(InOrder(set \ {x}, rev), x)
            ELSE <<x>> \o InOrder(set \ {x}, rev)

\* Get, lines 497-518, for the items of one epoch's result in the order given:
\* tmp holds [key, fields, set] for every key seen
RECURSIVE Aggregate(_, _, _, _)
Aggregate(tmp, items, w, q) ==
    IF items = << >> THEN tmp
    ELSE LET item == Head(items)
             key == FieldsKey(item.fields)
             zero == [i \in 1..q.pcount |-> Zeros(md.PayloadSize)]
         IN IF \E e \in tmp : e.key = key
            THEN LET e == CHOOSE e \in tmp : e.key = key
                 IN Aggregate((tmp \ {e}) \cup
                                {[e EXCEPT !.set = Copy(@, w.recStart, w.recEnd, item.points)]},
                              Tail(items), w, q)
            ELSE Aggregate(tmp \cup {[key |-> key, fields |-> item.fields,
                                       set |-> Copy(zero, w.recStart, w.recEnd, item.points)]},
                           Tail(items), w, q)

\* the loop of Get: [tmp, fetches]; ord tells, for each epoch of the loop, the
\* order in which the range over the epoch's result visits its items
RECURSIVE GetLoop(_, _, _, _, _)
GetLoop(S, q, ts, acc, ord) ==
    IF ts > q.epoLast THEN acc
    ELSE LET g == GetEpoch(S, ts)
             w == EpochWindow(q, ts)
             result == EpochGet(g.S.store, ts, w.startPos, w.endPos, q.fields)
             rev == ord[GoDiv(ts - q.epoFirst, md.Duration)]
         IN IF g.err # "nil"
            THEN GetLoop(g.S, q, ts + md.Duration,
                         [acc EXCEPT !.fetches = Append(@, [ts |-> ts, err |-> g.err])], ord)
            ELSE GetLoop(g.S, q, ts + md.Duration,
                         [tmp |-> Aggregate(acc.tmp, InOrder(result, rev), w, q),
                          fetches |-> Append(acc.fetches,
                                             [ts |-> ts, err |-> "nil", win |-> w])], ord)

\* the orders that differ: one choice for every epoch of the loop that holds
\* two rows or more
Orders(q) ==
    {ord \in [0..MaxEpochs -> BOOLEAN] :
       \A i \in 0..MaxEpochs :
          ord[i] => Cardinality({r \in store.rows :
                                  r[1] = q.epoFirst + i * md.Duration}) >= 2}

\* Get(start, end, fields): the output has one entry for every key of tmpFields
DbGet(start, end, fields) ==
    /\ \E ord \in Orders(RangeQuery(start, end, fields)) :
         LET r == RangeRead(start, end)
             q == RangeQuery(start, end, fields)
             l == GetLoop(Bundle, q, q.epoFirst, [tmp |-> {}, fetches |-> << >>], ord)
         IN /\ Commit(r.S)
            /\ lastDb' = IF r.err # "nil"
                         THEN [op |-> "Get", start |-> start, end |-> end,
                               fields |-> fields, err |-> r.err]
                         ELSE [op |-> "Get", start |-> start, end |-> end,
                               fields |-> fields, err |-> "nil",
                               out |-> {[fields |-> e.fields, points |-> e.set] :
                                          e \in l.tmp},
                               fetches |-> l.fetches]
    /\ lastTick' = NoTick
    /\ UNCHANGED <<md, recovery, now, dbOpen, closedCh, retPc, idxVars, wire, conVars, nfault>>

\* Edit(metadata) storing the two capacities without the test for zero
DbEditAll(nro, nrw) ==
    /\ LET r == CacheResize(roepochs, nro)
           w == CacheResize(rwepochs, nrw)
           meta == [MaxROEpochs |-> nro, MaxRWEpochs |-> nrw]
       IN /\ md' = [md EXCEPT !.MaxROEpochs = nro,
                              !.MaxRWEpochs = nrw]
          /\ roepochs' = r.cache
          /\ rwepochs' = w.cache
          /\ \/ /\ lastDb' = [op |-> "Edit", err |-> "nil", meta |-> meta,
                              closed |-> r.evicted \o w.evicted]
                /\ UNCHANGED nfault
             \/ /\ nfault > 0
                /\ nfault' = nfault - 1
                /\ lastDb' = [op |-> "Edit", err |-> "ErrMdSave", meta |-> meta,
                              closed |-> r.evicted \o w.evicted]
    /\ lastTick' = NoTick
    /\ UNCHANGED <<recovery, now, entries, pathExists, dbOpen, closedCh, retPc,
                   store, idxVars, wire, conVars>>

\* Edit(metadata): a non-zero capacity replaces the stored one and resizes its
\* cache; then the metadata is saved, which may fail
DbEdit(nro, nrw) ==
    /\ LET r == IF nro # 0 THEN CacheResize(roepochs, nro)
                ELSE [cache |-> roepochs, evicted |-> << >>]
           w == IF nrw # 0 THEN CacheResize(rwepochs, nrw)
                ELSE [cache |-> rwepochs, evicted |-> << >>]
           meta == [MaxROEpochs |-> nro, MaxRWEpochs |-> nrw]
       IN /\ md' = [md EXCEPT !.MaxROEpochs = IF nro # 0 THEN nro ELSE @,
                              !.MaxRWEpochs = IF nrw # 0 THEN nrw ELSE @]
          /\ roepochs' = r.cache
          /\ rwepochs' = w.cache
          /\ \/ /\ lastDb' = [op |-> "Edit", err |-> "nil", meta |-> meta,
                              closed |-> r.evicted \o w.evicted]
                /\ UNCHANGED nfault
             \/ /\ nfault > 0
                /\ nfault' = nfault - 1
                /\ lastDb' = [op |-> "Edit", err |-> "ErrMdSave", meta |-> meta,
                              closed |-> r.evicted \o w.evicted]
    /\ lastTick' = NoTick
    /\ UNCHANGED <<recovery, now, entries, pathExists, dbOpen, closedCh, retPc,
                   store, idxVars, wire, conVars>>

\* |x|
Abs(x) == IF x < 0 THEN -x ELSE x

\* the Metadata that New(options) stores
MetadataOf(options) ==
    [Path |-> options.Path, Resolution |-> options.Resolution,
     Retention |-> options.Retention, Duration |-> options.Duration,
     PayloadSize |-> options.PayloadSize, SegmentSize |-> options.SegmentSize,
     MaxROEpochs |-> options.MaxROEpochs, MaxRWEpochs |-> options.MaxRWEpochs]

\* the one test New makes of its options: options.Duration % options.Resolution,
\* an integer division that panics when the resolution is zero
DurResCheck(options) ==
    IF options.Resolution = 0 THEN "panic"
    ELSE IF GoMod(options.Duration, Abs(options.Resolution)) # 0 THEN "ErrDurRes"
    ELSE "nil"

\* New(options)
DbNew(options) ==
    /\ ~dbOpen
    /\ IF pathExists
       THEN /\ lastDb' = [op |-> "New", options |-> options, err |-> "ErrExists"]
            /\ UNCHANGED <<md, recovery, roepochs, rwepochs, entries, pathExists,
                           dbOpen, closedCh, retPc, store, nfault>>
       ELSE IF DurResCheck(options) # "nil"
       THEN /\ lastDb' = [op |-> "New", options |-> options,
                          err |-> DurResCheck(options)]
            /\ UNCHANGED <<md, recovery, roepochs, rwepochs, entries, pathExists,
                           dbOpen, closedCh, retPc, store, nfault>>
       ELSE \/ /\ md' = MetadataOf(options)
               /\ recovery' = options.Recovery
               /\ roepochs' = NewCache(options.MaxROEpochs)
               /\ rwepochs' = NewCache(options.MaxRWEpochs)
               /\ entries' = {<<"metadata">>}
               /\ pathExists' = TRUE
               /\ dbOpen' = TRUE
               /\ closedCh' = FALSE
               /\ retPc' = "first"
               /\ store' = EmptyStore
               /\ lastDb' = [op |-> "New", options |-> options, err |-> "nil"]
               /\ UNCHANGED nfault
            \/ /\ nfault > 0
               /\ nfault' = nfault - 1
               /\ lastDb' = [op |-> "New", options |-> options, err |-> "ErrMdNew"]
               /\ UNCHANGED <<md, recovery, roepochs, rwepochs, entries, pathExists,
                              dbOpen, closedCh, retPc, store>>
            \/ /\ nfault > 0
               /\ nfault' = nfault - 1
               /\ entries' = {<<"metadata">>}
               /\ pathExists' = TRUE
               /\ store' = EmptyStore
               /\ lastDb' = [op |-> "New", options |-> options, err |-> "ErrMdSave"]
               /\ UNCHANGED <<md, recovery, roepochs, rwepochs, dbOpen, closedCh,
                              retPc>>
    /\ lastTick' = NoTick
    /\ UNCHANGED <<now, idxVars, wire, conVars>>

\* Close() purging only the read-only cache
DbCloseRoOnly ==
    /\ dbOpen' = FALSE
    /\ roepochs' = CachePurge(roepochs).cache
    /\ \/ /\ closedCh' = TRUE
          /\ lastDb' = [op |-> "Close", err |-> "nil",
                        closed |-> CachePurge(roepochs).evicted]
          /\ UNCHANGED nfault
       \/ /\ nfault > 0
          /\ nfault' = nfault - 1
          /\ lastDb' = [op |-> "Close", err |-> "ErrMdClose",
                        closed |-> CachePurge(roepochs).evicted]
          /\ UNCHANGED closedCh
    /\ lastTick' = NoTick
    /\ UNCHANGED <<md, recovery, rwepochs, now, entries, pathExists, retPc, store, idxVars, wire, conVars>>

\* Close(): both caches are purged; db.closed is closed unless closing the
\* metadata store fails
DbClose ==
    /\ dbOpen' = FALSE
    /\ roepochs' = CachePurge(roepochs).cache
    /\ rwepochs' = CachePurge(rwepochs).cache
    /\ \/ /\ closedCh' = TRUE
          /\ lastDb' = [op |-> "Close", err |-> "nil",
                        closed |-> CachePurge(roepochs).evicted
                                   \o CachePurge(rwepochs).evicted]
          /\ UNCHANGED nfault
       \/ /\ nfault > 0
          /\ nfault' = nfault - 1
          /\ lastDb' = [op |-> "Close", err |-> "ErrMdClose",
                        closed |-> CachePurge(roepochs).evicted
                                   \o CachePurge(rwepochs).evicted]
          /\ UNCHANGED closedCh
    /\ lastTick' = NoTick
    /\ UNCHANGED <<md, recovery, now, entries, pathExists, retPc, store, idxVars, wire, conVars>>

\* the clock moves on
ClockAdvance(d) ==
    /\ now + d <= MaxNow
    /\ now' = now + d
    /\ lastDb' = NoCall
    /\ lastTick' = NoTick
    /\ UNCHANGED <<md, recovery, roepochs, rwepochs, entries, pathExists, dbOpen,
                   closedCh, retPc, store, idxVars, wire, conVars, nfault>>

----------------------------------------------------------------------------
\* Retention: database.expire and database.enforceRetention.

\* ts := vtimer.Now() - Retention; ts -= ts % dur
ExpireCutoff == (now - md.Retention) - GoMod(now - md.Retention, md.Duration)

\* the entries the loop of expire does not skip
Expired(names, cutoff) ==
    {n \in names : /\ HasPrefix(n)
                   /\ ParseInt(TrimPrefix(n)).ok
                   /\ ParseInt(TrimPrefix(n)).val <= cutoff}

RECURSIVE DelAll(_, _)
DelAll(c, keys) ==
    IF keys = {} THEN c
    ELSE LET k == CHOOSE x \in keys : TRUE
         IN DelAll(CacheDel(c, k).cache, keys \ {k})

\* expire(): ReadDir, then for every expired entry roepochs.Del, Close and
\* RemoveAll; the entries in bad are those whose Close or RemoveAll fails
ExpireCall ==
    \/ /\ ~pathExists
       /\ lastTick' = [op |-> "expire", err |-> "nil", num |-> 0, before |-> entries,
                       rw |-> CacheKeys(rwepochs), removed |-> {}, bad |-> {}]
       /\ UNCHANGED <<roepochs, entries, store, nfault>>
    \/ /\ pathExists
       /\ nfault > 0
       /\ nfault' = nfault - 1
       /\ lastTick' = [op |-> "expire", err |-> "ErrReadDir", num |-> 0,
                       before |-> entries, rw |-> CacheKeys(rwepochs),
                       removed |-> {}, bad |-> {}]
       /\ UNCHANGED <<roepochs, entries, store>>
    \/ /\ pathExists
       /\ \E bad \in SUBSET Expired(entries, ExpireCutoff) :
            /\ Cardinality(bad) <= Min(nfault, 1)
            /\ LET gone == Expired(entries, ExpireCutoff) \ bad
                   keys == {ParseInt(TrimPrefix(n)).val : n \in Expired(entries, ExpireCutoff)}
               IN /\ roepochs' = DelAll(roepochs, keys \cap CacheKeys(roepochs))
                  /\ entries' = entries \ gone
                  /\ store' = DropAll(store, {ParseInt(TrimPrefix(n)).val : n \in gone})
                  /\ nfault' = nfault - Cardinality(bad)
                  /\ lastTick' = [op |-> "expire", err |-> "nil",
                                  num |-> Cardinality(gone), before |-> entries,
                                  rw |-> CacheKeys(rwepochs), removed |-> gone,
                                  bad |-> bad]

\* enforceRetention: the initial expire call
RetFirst ==
    /\ retPc = "first"
    /\ ExpireCall
    /\ retPc' = "select"
    /\ lastDb' = NoCall
    /\ UNCHANGED <<md, recovery, rwepochs, now, pathExists, dbOpen, closedCh, idxVars, wire, conVars>>

\* case <-time.Tick(RetInterval)
RetTick ==
    /\ retPc = "select"
    /\ ExpireCall
    /\ retPc' = "select"
    /\ lastDb' = NoCall
    /\ UNCHANGED <<md, recovery, rwepochs, now, pathExists, dbOpen, closedCh, idxVars, wire, conVars>>

\* case _ = <-db.closed: break
RetClosed ==
    /\ retPc = "select"
    /\ closedCh
    /\ retPc' = "break"
    /\ lastDb' = NoCall
    /\ lastTick' = NoTick
    /\ UNCHANGED <<md, recovery, roepochs, rwepochs, now, entries, pathExists, dbOpen,
                   closedCh, store, idxVars, wire, conVars, nfault>>

\* the break leaves the select statement; the for statement goes round again
RetLoop ==
    /\ retPc = "break"
    /\ retPc' = "select"
    /\ lastDb' = NoCall
    /\ lastTick' = NoTick
    /\ UNCHANGED <<md, recovery, roepochs, rwepochs, now, entries, pathExists, dbOpen,
                   closedCh, store, idxVars, wire, conVars, nfault>>

\* the database directory is removed from outside
RemovePath ==
    /\ pathExists
    /\ pathExists' = FALSE
    /\ entries' = {}
    /\ store' = EmptyStore
    /\ lastDb' = NoCall
    /\ lastTick' = NoTick
    /\ UNCHANGED <<md, recovery, roepochs, rwepochs, now, dbOpen, closedCh, retPc,
                   idxVars, wire, conVars, nfault>>

----------------------------------------------------------------------------
\* Initial states.

\* index.New on a new file: nothing to load, the first preallocation is made
IdxInit ==
    /\ trie = EmptyTrie
    /\ file = Allocate(<< >>)
    /\ woff = 0
    /\ dataSize = 0
    /\ allocating = FALSE
    /\ ronly = FALSE
    /\ opened = "open"
    /\ session = 1
    /\ pc = [p \in Procs |-> "idle"]
    /\ cur = [p \in Procs |-> NoPut]
    /\ bgCheck = 0
    /\ bgAlloc = 0
    /\ ops = << >>
    /\ logOrder = << >>
    /\ addOrder = << >>
    /\ nput = 0
    /\ lastPut = [id |-> 0, fields |-> << >>, value |-> 0, res |-> "nil",
                  preTrie |-> EmptyTrie, preSize |-> 0]
    /\ lastQry = NoQry

\* the entries of the database directory that are not epochs: the metadata file
\* and a name with the prefix and no number
OtherEntries == {<<"metadata">>, <<EpochPrefix, "x">>}

\* timestamps, window ends, capacities and clock steps the callers use
Timestamps == {t \in (-1)..MaxTs : t % 4 \in {0, 3}}

Windows == {<<0, 0>>, <<0, 3>>, <<4, MaxTs>>}

Capacities == {0, 1, 2}

RoCapacities == {0, 1}

\* field sets, payloads and queries the callers use; a string is a sequence
\* of characters
FieldSets == {<< <<"a">>, <<"b">> >>, << <<"a", "-", "b">> >>}

Payloads == {<<1>>}

Queries == {<< << >> >>, << <<"a">>, << >> >>}

\* timestamps and windows of the callers that write and read payloads
ReadTimestamps == {0, 2, 5, 8}

ReadWindows == {<<4, 4>>, <<0, 1>>, <<2, 7>>, <<0, MaxTs>>}

\* a database newly created, its retention task not yet run
ReadInit ==
    /\ md = [Resolution |-> 2, Duration |-> 4, Retention |-> 4, PayloadSize |-> 1,
             Path |-> "db", SegmentSize |-> 1,
             MaxROEpochs |-> 1, MaxRWEpochs |-> 1]
    /\ recovery = FALSE
    /\ roepochs = NewCache(1)
    /\ rwepochs = NewCache(1)
    /\ now = 0
    /\ entries = OtherEntries
    /\ pathExists = TRUE
    /\ dbOpen = TRUE
    /\ closedCh = FALSE
    /\ retPc = "first"
    /\ store = EmptyStore
    /\ lastDb = NoCall
    /\ lastTick = NoTick

ClockSteps == {3, 4}

\* database.New or database.Open: empty caches, the retention task started
DbInit ==
    /\ md \in {[Resolution |-> 2, Duration |-> 4, Retention |-> 4, PayloadSize |-> 1,
             Path |-> "db", SegmentSize |-> 1,
                MaxROEpochs |-> 1, MaxRWEpochs |-> rw] : rw \in {1, 2}}
    /\ recovery \in BOOLEAN
    /\ roepochs = NewCache(md.MaxROEpochs)
    /\ rwepochs = NewCache(md.MaxRWEpochs)
    /\ now = 0
    /\ entries \in {OtherEntries, OtherEntries \cup {EpochName(0)}}
    /\ pathExists = TRUE
    /\ dbOpen = TRUE
    /\ closedCh = FALSE
    /\ retPc = "first"
    /\ store = EmptyStore
    /\ lastDb = NoCall
    /\ lastTick = NoTick

\* no database in use
DbIdle ==
    /\ md = [Resolution |-> 2, Duration |-> 4, Retention |-> 4, PayloadSize |-> 1,
             Path |-> "db", SegmentSize |-> 1,
             MaxROEpochs |-> 1, MaxRWEpochs |-> 1]
    /\ recovery = FALSE
    /\ roepochs = NewCache(1)
    /\ rwepochs = NewCache(1)
    /\ now = 0
    /\ entries = {}
    /\ pathExists = FALSE
    /\ dbOpen = FALSE
    /\ closedCh = FALSE
    /\ retPc = "first"
    /\ store = EmptyStore
    /\ lastDb = NoCall
    /\ lastTick = NoTick

----------------------------------------------------------------------------
\* One caller of an index, with I/O failures and reopening.

Init == IdxInit /\ DbIdle /\ nfault = MaxFaults /\ wire = NoWire /\ ConIdle

Next ==
    \/ \E f \in PutFields, v \in PutValues : nput < MaxPuts /\ PutBegin(1, f, v)
    \/ SaveCheck(1)
    \/ SaveAlloc(1)
    \/ SavePre(1)
    \/ SaveSpawn(1)
    \/ SaveAppend(1)
    \/ AddStep(1)
    \/ BgCheck
    \/ BgAlloc
    \/ \E ro \in BOOLEAN : Reopen(ro)

Spec == Init /\ [][Next]_vars

\* Concurrent callers of one index, without I/O failures.

InitConc == IdxInit /\ DbIdle /\ nfault = 0 /\ wire = NoWire /\ ConIdle

NextConc ==
    \/ \E p \in Procs, f \in PutFields, v \in PutValues :
         nput < MaxConcPuts /\ PutBegin(p, f, v)
    \/ \E p \in Procs : SaveCheck(p)
    \/ \E p \in Procs : SaveAlloc(p)
    \/ \E p \in Procs : SavePre(p)
    \/ \E p \in Procs : SaveSpawn(p)
    \/ \E p \in Procs : SaveAppend(p)
    \/ \E p \in Procs : AddStep(p)
    \/ BgCheck
    \/ BgAlloc

SpecConc == InitConc /\ [][NextConc]_vars

\* One caller of an index that puts and queries, without I/O failures.

QryPutFields == {<<"a">>, <<"b">>, <<"a", "b">>, <<"a", "b", "a">>}

QryPutValues == {1, NoValue}

QryFields == {<< >>, <<"">>, <<"a">>, <<"b">>, <<"a", "b">>, <<"a", "">>, <<"b", "">>,
              <<"", "b">>, <<"", "", "a">>}

InitQry == IdxInit /\ DbIdle /\ nfault = 0 /\ wire = NoWire /\ ConIdle

NextQry ==
    \/ \E f \in QryPutFields, v \in QryPutValues : nput < MaxQryPuts /\ PutBegin(1, f, v)
    \/ SaveCheck(1)
    \/ SaveAlloc(1)
    \/ SavePre(1)
    \/ SaveSpawn(1)
    \/ SaveAppend(1)
    \/ AddStep(1)
    \/ BgCheck
    \/ BgAlloc
    \/ \E q \in QryFields : OneCall(1, q)
    \/ \E q \in QryFields : GetCall(1, q)

SpecQry == InitQry /\ [][NextQry]_vars

\* The database: calls made one at a time until Close, the clock, the
\* retention task and the directory.

InitDb == IdxInit /\ DbInit /\ nfault = MaxFaults /\ wire = NoWire /\ ConIdle

NextDb ==
    \/ \E t \in Timestamps : dbOpen /\ DbPut(t, << <<"a">>, <<"b">> >>, <<0>>)
    \/ \E w \in Windows : dbOpen /\ DbOne(w[1], w[2], << <<"a">>, <<"b">> >>)
    \/ \E w \in Windows : dbOpen /\ DbGet(w[1], w[2], << << >> >>)
    \/ \E nro \in RoCapacities, nrw \in Capacities : dbOpen /\ DbEdit(nro, nrw)
    \/ dbOpen /\ DbClose
    \/ \E d \in ClockSteps : ClockAdvance(d)
    \/ RetFirst
    \/ RetTick
    \/ RetClosed
    \/ RetLoop
    \/ ~dbOpen /\ RemovePath

SpecDb == InitDb /\ [][NextDb]_vars

\* Databases created with New from every kind of option set, closed and removed.

\* an option set the documentation accepts, and the option sets that differ
\* from it in one option
GoodOptions ==
    [Path |-> "db", Resolution |-> 2, Retention |-> 4, Duration |-> 4,
     PayloadSize |-> 1, SegmentSize |-> 1, MaxROEpochs |-> 1, MaxRWEpochs |-> 1,
     Recovery |-> FALSE]

NewOptions ==
    {GoodOptions, [GoodOptions EXCEPT !.Recovery = TRUE]}
      \cup {[GoodOptions EXCEPT !.Resolution = v] : v \in {-2, 0, 1, 3}}
      \cup {[GoodOptions EXCEPT !.Duration = v] : v \in {-4, 0, 6}}
      \cup {[GoodOptions EXCEPT !.PayloadSize = 0],
            [GoodOptions EXCEPT !.SegmentSize = 0],
            [GoodOptions EXCEPT !.MaxROEpochs = 0],
            [GoodOptions EXCEPT !.MaxRWEpochs = 0],
            [GoodOptions EXCEPT !.MaxROEpochs = 2, !.MaxRWEpochs = 2]}

InitNew == IdxInit /\ DbIdle /\ nfault = MaxFaults /\ wire = NoWire /\ ConIdle

NextNew ==
    \/ \E options \in NewOptions : DbNew(options)
    \/ dbOpen /\ DbClose
    \/ ~dbOpen /\ RemovePath

SpecNew == InitNew /\ [][NextNew]_vars

\* The database written to and read by one client while the clock moves on.

InitRead == IdxInit /\ ReadInit /\ nfault = 0 /\ wire = NoWire /\ ConIdle

NextRead ==
    \/ \E t \in ReadTimestamps, f \in FieldSets, v \in Payloads : DbPut(t, f, v)
    \/ \E w \in ReadWindows, f \in FieldSets : DbOne(w[1], w[2], f)
    \/ \E w \in ReadWindows, q \in Queries : DbGet(w[1], w[2], q)
    \/ \E d \in ClockSteps : ClockAdvance(d)

SpecRead == InitRead /\ [][NextRead]_vars

----------------------------------------------------------------------------
\* Properties of the index with one caller (Spec).

\* C1: after a Put(fields, value) that returned nil, value being any 32-bit
\* word, One(fields) returns that value.
C1_OneReturnsPutValue ==
    (lastPut.id # 0 /\ lastPut.res = "nil") =>
        /\ One(trie, lastPut.fields).err = "nil"
        /\ One(trie, lastPut.fields).item.Value = lastPut.value

\* no write and no growth of the file has failed
NoFailure == nfault = MaxFaults

\* C2: when no write has failed, closing and reopening the file replays the log
\* without error to exactly the items the trie held before the close.
C2_ReopenRoundTrip ==
    [][(session' = session + 1 /\ NoFailure) =>
           (Load(file).err = "nil" /\ trie' = trie)]_vars

\* C2, its case: an item put in the first session is read back in the second.
C2_ReopenedWithItems ==
    /\ session = 2
    /\ opened = "open"
    /\ NoFailure
    /\ \E i \in 1..Len(ops) :
         /\ ops[i].res = "nil"
         /\ ops[i].session = 1
         /\ ops[i].value = 1
         /\ Len(ops[i].fields) = 2
         /\ One(trie, ops[i].fields).err = "nil"
         /\ One(trie, ops[i].fields).item.Value = 1

\* C3: a Put whose append fails returns the error and leaves the trie and
\* dataSize exactly as they were before the Put.
C3_FailedAppendLeavesMemory ==
    [][\A p \in Procs :
          (pc[p] = "save_append" /\ pc'[p] = "idle") =>
              (trie' = trie /\ dataSize' = dataSize)]_vars

----------------------------------------------------------------------------
\* Properties of the index with concurrent callers (SpecConc).

\* C4: of the Puts that carry the same fields (and a value other than the
\* sentinel), at most one returns nil.
C4_AtMostOneSuccess ==
    \A i, j \in 1..Len(ops) :
        (/\ i # j
         /\ ops[i].fields = ops[j].fields
         /\ ops[i].value # NoValue
         /\ ops[j].value # NoValue)
        => ~(ops[i].res = "nil" /\ ops[j].res = "nil")

\* C5: items are added to the trie in the order of their records in the log.
C5_LogOrderIsAddOrder ==
    \A i \in 1..Len(addOrder) : i <= Len(logOrder) /\ addOrder[i] = logOrder[i]

----------------------------------------------------------------------------
\* Properties of the database (SpecDb).

\* C6: no epoch is resident in the read-only and in the read-write cache at once.
C6_RoXorRw == CacheKeys(roepochs) \cap CacheKeys(rwepochs) = {}

C8_TickKeepsRwEpochs ==
    (lastTick.op = "expire" /\ now >= md.Retention) =>
        \A k \in lastTick.rw : EpochName(k) \notin lastTick.removed

\* C9: once the retention task has received the close signal it does not go
\* back to wait in its loop.
C9_LoopExitsOnClose ==
    [][retPc = "break" => retPc' \in {"break", "exit"}]_vars

\* C10: an expire call without I/O failure removes exactly the entries named
\* epoch_<ts> with ts <= cutoff, cutoff being now - retention floored to the
\* duration; with the directory missing it removes nothing and returns no error.
C10_TickRemovesUpToCutoff ==
    (lastTick.op = "expire" /\ lastTick.bad = {} /\ lastTick.err # "ErrReadDir") =>
        /\ lastTick.err = "nil"
        /\ lastTick.removed =
               Expired(lastTick.before, FloorTo(now - md.Retention, md.Duration))
        /\ lastTick.num = Cardinality(lastTick.removed)

----------------------------------------------------------------------------
\* Properties of the index queries (SpecQry).

\* the elements of a sequence
Elems(sq) == {sq[i] : i \in 1..Len(sq)}

\* a sequence without a repeated element
NoDuplicates(sq) == Cardinality(Elems(sq)) = Len(sq)

\* fields has an empty element
HasWild(fields) == \E i \in 1..Len(fields) : fields[i] = ""

\* the paths of the trie at or below path p
Below(t, p) == {q \in DOMAIN t : Len(q) >= Len(p) /\ SubSeq(q, 1, Len(p)) = p}

\* C15 as stated: Get(fields) with no empty element returns exactly
\* {One(fields)} when One(fields) succeeds and nothing otherwise.
C15_GetIsOne ==
    (lastQry.op = "Get" /\ ~HasWild(lastQry.fields)) =>
        /\ lastQry.err = "nil"
        /\ lastQry.items = IF One(trie, lastQry.fields).err = "nil"
                            THEN <<One(trie, lastQry.fields).item>> ELSE << >>

\* C15 amended: Get(fields) with no empty element returns, each once, exactly
\* the items One resolves at the addressed path and at every path below it.
C15_GetIsSubtree ==
    (lastQry.op = "Get" /\ ~HasWild(lastQry.fields)) =>
        /\ lastQry.err = "nil"
        /\ Elems(lastQry.items) =
             {One(trie, q).item :
                q \in {r \in Below(trie, lastQry.fields) : One(trie, r).err = "nil"}}
        /\ NoDuplicates(lastQry.items)

\* C15 witness: a Get without wildcard returned a valued node and a descendant
C15_GetReturnedDescendant ==
    /\ lastQry.op = "Get"
    /\ lastQry.fields = <<"a">>
    /\ Len(lastQry.items) >= 2
    /\ One(trie, <<"a">>).err = "nil"

\* C16: with the first empty field at position i, Get returns without failing
\* exactly the valued items under the prefix before i that agree with every
\* non-empty query field from i on; shorter items are excluded and no item is
\* returned twice.  (The root's item is left out of the comparison.)
C16_PostFilter ==
    (lastQry.op = "Get" /\ HasWild(lastQry.fields)) =>
        LET q == lastQry.fields
            w == FirstWild(q)
            matching == {p \in Below(trie, SubSeq(q, 1, w - 1)) \ {<< >>} :
                           /\ trie[p].Value # NoValue
                           /\ \A j \in w..Len(q) :
                                q[j] # "" => (j <= Len(p) /\ p[j] = q[j])}
        IN /\ lastQry.err = "nil"
           /\ {it \in Elems(lastQry.items) : it.Fields # << >>} = {trie[p] : p \in matching}
           /\ NoDuplicates(lastQry.items)

\* C17: Get([""]) returns exactly the items that were put with success, and
\* One([]) does not resolve to an item.
C17_FullWildcard ==
    /\ (lastQry.op = "Get" /\ lastQry.fields = <<"">>) =>
          /\ lastQry.err = "nil"
          /\ Elems(lastQry.items) =
               {[Fields |-> ops[i].fields, Value |-> ops[i].value] :
                  i \in {k \in 1..Len(ops) : ops[k].res = "nil"}}
    /\ (lastQry.op = "One" /\ lastQry.fields = << >>) => lastQry.err # "nil"

\* C18: One returns ErrNoWild for every fields with an empty element, and
\* ErrNoItem only for fields without one whose path is missing or ends at a
\* node without a value.
C18_OneRejectsWildcards ==
    lastQry.op = "One" =>
        /\ HasWild(lastQry.fields) => lastQry.err = "ErrNoWild"
        /\ lastQry.err = "ErrNoItem" =>
              /\ ~HasWild(lastQry.fields)
              /\ \/ lastQry.fields \notin DOMAIN trie
                 \/ trie[lastQry.fields].Value = NoValue

\* C19: a Put on an index opened read-only returns ErrROnly and leaves the
\* trie and the log unchanged.
C19_ReadOnlyPut ==
    [][(ronly /\ opened = "open" /\ lastPut'.id # lastPut.id) =>
          /\ lastPut'.res = "ErrROnly"
          /\ trie' = trie
          /\ file' = file
          /\ dataSize' = dataSize]_vars

----------------------------------------------------------------------------
\* Properties of the database in recovery mode (SpecDb).

\* C20: with recovery set, the read-only cache stays empty, every cached epoch
\* is a read-write one, and a Put with a non-negative timestamp whose epoch
\* starts before now + duration (now floored to the duration) succeeds on a
\* read-write epoch resident in the read-write cache, whatever its age.
C20_RecoveryOpensReadWrite ==
    recovery =>
        /\ roepochs.items = << >>
        /\ \A i \in 1..Len(rwepochs.items) : ~rwepochs.items[i].epo.ronly
        /\ (/\ lastDb.op = "Put"
            /\ lastDb.ts >= 0
            /\ FloorTo(lastDb.ts, md.Duration) < FloorTo(now, md.Duration) + md.Duration)
           => /\ lastDb.err = "nil"
              /\ ~lastDb.epo.ronly
              /\ FloorTo(lastDb.ts, md.Duration) \in CacheKeys(rwepochs)

\* C20 witness: in recovery mode a Put(ts=0) succeeded although epoch 0 is
\* older than the read-write window
C20_OldPutSucceeded ==
    /\ recovery
    /\ lastDb.op = "Put"
    /\ lastDb.ts = 0
    /\ 0 < FloorTo(now, md.Duration) - (md.MaxRWEpochs - 1) * md.Duration
    /\ lastDb.err = "nil"

----------------------------------------------------------------------------
\* Properties of the range reads (SpecRead).

\* the call of the last step was a range read that returned an output
ReadOk == lastDb.op \in {"One", "Get"} /\ lastDb.err = "nil"

\* the window of the last read in whole points, and the time of output index i
WinStart == FloorTo(lastDb.start, md.Resolution)

WinEnd == FloorTo(lastDb.end, md.Resolution)

WinCount == (WinEnd - WinStart) \div md.Resolution

TimeAt(i) == WinStart + (i - 1) * md.Resolution

\* the payloads stored for a field set at a time
StoredAt(fields, t) ==
    {p.val : p \in {x \in store.points :
                      x.fields = fields /\ x.ts + x.pos * md.Resolution = t}}

\* the fetches of the last read that computed a window
Windowed == {k \in 1..Len(lastDb.fetches) : "win" \in DOMAIN lastDb.fetches[k]}

\* the epochs that answered the last read
Answered == {lastDb.fetches[k].ts : k \in {j \in 1..Len(lastDb.fetches) :
                                             lastDb.fetches[j].err = "nil"}}

\* a sequence of payloads of the right length and size that is all-zero
\* wherever nothing is stored for the field set
WellShaped(points, fields) ==
    /\ Len(points) = WinCount
    /\ \A i \in 1..Len(points) :
         /\ Len(points[i]) = md.PayloadSize
         /\ StoredAt(fields, TimeAt(i)) = {} => points[i] = Zeros(md.PayloadSize)

\* C11: One returns pcount payloads and Get a pcount-long buffer for each
\* field set, every payload of PayloadSize bytes and all-zero where there is
\* no data, the slices of skipped epochs included.
C11_OutputShape ==
    ReadOk =>
        IF lastDb.op = "One" THEN WellShaped(lastDb.out, lastDb.fields)
        ELSE \A e \in lastDb.out : WellShaped(e.points, e.fields)

\* C12: the output windows of the epochs of a read are pairwise disjoint and,
\* when every epoch gave one, cover the output; the positions asked of an
\* epoch lie within its rows; and a point stored at time t in the window is at
\* output index (t - start) / resolution of its field set.
C12_Splicing ==
    ReadOk =>
        /\ \A k \in Windowed, l \in Windowed :
              k # l => \/ lastDb.fetches[k].win.recEnd <= lastDb.fetches[l].win.recStart
                       \/ lastDb.fetches[l].win.recEnd <= lastDb.fetches[k].win.recStart
        /\ Windowed = 1..Len(lastDb.fetches) =>
              UNION {lastDb.fetches[k].win.recStart .. (lastDb.fetches[k].win.recEnd - 1) :
                       k \in Windowed} = 0..(WinCount - 1)
        /\ \A k \in Windowed :
              /\ 0 <= lastDb.fetches[k].win.startPos
              /\ lastDb.fetches[k].win.startPos <= lastDb.fetches[k].win.endPos
              /\ lastDb.fetches[k].win.endPos <= md.Duration \div md.Resolution
        /\ \A p \in store.points :
              LET t == p.ts + p.pos * md.Resolution
                  i == (t - WinStart) \div md.Resolution + 1
              IN (WinStart <= t /\ t < WinEnd) =>
                   /\ (lastDb.op = "One" /\ lastDb.fields = p.fields) =>
                         lastDb.out[i] = p.val
                   /\ (lastDb.op = "Get" /\ EpochMatch(lastDb.fields, p.fields)) =>
                         \E e \in lastDb.out : e.fields = p.fields /\ e.points[i] = p.val

\* the field sets the answering epochs hold that match the query of the last Get
Observed ==
    {r[2] : r \in {x \in store.rows : x[1] \in Answered /\ EpochMatch(lastDb.fields, x[2])}}

\* the payloads of one field set over the window of the last read
OwnPayloads(fields) ==
    [i \in 1..WinCount |->
        IF FloorTo(TimeAt(i), md.Duration) \in Answered /\ StoredAt(fields, TimeAt(i)) # {}
        THEN CHOOSE v \in StoredAt(fields, TimeAt(i)) : TRUE
        ELSE Zeros(md.PayloadSize)]

\* C13: the output of Get holds, for every field set observed in an
\* answering epoch, a separate entry with that field set's own payloads.
C13_NoMerge ==
    (ReadOk /\ lastDb.op = "Get") =>
        /\ \A f \in Observed : [fields |-> f, points |-> OwnPayloads(f)] \in lastDb.out
        /\ Cardinality(lastDb.out) = Cardinality(Observed)

\* C14 as stated: a range read returns ErrRange when end <= start and an
\* output without error for every window with end > start.
C14_OnlyBadRange ==
    lastDb.op \in {"One", "Get"} =>
        /\ lastDb.end <= lastDb.start => lastDb.err = "ErrRange"
        /\ lastDb.end > lastDb.start => lastDb.err = "nil"

\* C14 amended: with both ends floored to the resolution, a range read
\* returns ErrRange when end <= start, changing no cache and no directory, and
\* an output without error for every other window.
C14_OnlyBadRangeFloored ==
    [][lastDb'.op \in {"One", "Get"} =>
          LET s == FloorTo(lastDb'.start, md.Resolution)
              e == FloorTo(lastDb'.end, md.Resolution)
          IN /\ e <= s => /\ lastDb'.err = "ErrRange"
                          /\ UNCHANGED <<roepochs, rwepochs, entries, pathExists, store>>
             /\ e > s => lastDb'.err = "nil"]_vars

\* C14 witness: a read returned an output although an epoch of its window
\* was refused as lying in the future
C14_FutureEpochSkipped ==
    /\ ReadOk
    /\ \E k \in 1..Len(lastDb.fetches) : lastDb.fetches[k].err = "ErrFuture"

----------------------------------------------------------------------------
\* Properties of Close, New and Edit (SpecDb).

\* the handles resident in the two caches
Resident == {roepochs.items[i].epo : i \in 1..Len(roepochs.items)}
              \cup {rwepochs.items[i].epo : i \in 1..Len(rwepochs.items)}

\* C21: once Close has returned, with or without an error of the metadata
\* store, both caches are empty, and the Close step passed every handle that
\* was resident to the eviction callback exactly once.
C21_ClosePurges ==
    /\ [](~dbOpen => (roepochs.items = << >> /\ rwepochs.items = << >>))
    /\ [][(dbOpen /\ ~dbOpen') =>
            /\ lastDb'.op = "Close"
            /\ \A h \in Resident :
                  Cardinality({k \in 1..Len(lastDb'.closed) : lastDb'.closed[k] = h}) = 1
            /\ \A k \in 1..Len(lastDb'.closed) : lastDb'.closed[k] \in Resident]_vars

\* C21 witness: a Close that failed on the metadata store closed the handles
\* of both caches
C21_FailedCloseClosedBoth ==
    /\ lastDb.op = "Close"
    /\ lastDb.err = "ErrMdClose"
    /\ \E k \in 1..Len(lastDb.closed) : lastDb.closed[k].ronly
    /\ \E k \in 1..Len(lastDb.closed) : ~lastDb.closed[k].ronly

\* a configuration the documentation of New accepts
ValidConfig(o) ==
    /\ o.Resolution > 0
    /\ o.Duration > 0
    /\ o.Duration % o.Resolution = 0
    /\ o.PayloadSize > 0
    /\ o.SegmentSize > 0
    /\ o.MaxROEpochs > 0
    /\ o.MaxRWEpochs > 0

\* C22: New, called for a path that does not exist, refuses every option set
\* that is not a valid configuration with the configuration error and creates
\* nothing; so the metadata of every database in use is a valid configuration.
C22_NewValidates ==
    /\ (lastDb.op = "New" /\ lastDb.err # "ErrExists"
          /\ ~ValidConfig(lastDb.options))
         => (lastDb.err = "ErrDurRes" /\ ~dbOpen /\ ~pathExists)
    /\ dbOpen => ValidConfig(md)

\* the fields of the metadata that no Edit may change
FixedFields ==
    {"Path", "Resolution", "Retention", "Duration", "PayloadSize", "SegmentSize"}

\* the capacity an Edit leaves in the metadata: the supplied one unless it is 0
Edited(old, supplied) == IF supplied # 0 THEN supplied ELSE old

\* C23: every Edit step leaves path, resolution, retention, duration,
\* payload_size and segment_size as they were; each capacity becomes the
\* supplied one when that is non-zero and is kept otherwise; a cache whose
\* capacity was supplied is resized to it and holds no more than that, a cache
\* whose capacity was not supplied is left alone.
C23_EditFrame ==
    [][lastDb'.op = "Edit" =>
         /\ \A f \in FixedFields : md'[f] = md[f]
         /\ md'.MaxROEpochs = Edited(md.MaxROEpochs, lastDb'.meta.MaxROEpochs)
         /\ md'.MaxRWEpochs = Edited(md.MaxRWEpochs, lastDb'.meta.MaxRWEpochs)
         /\ IF lastDb'.meta.MaxROEpochs # 0
            THEN /\ roepochs'.cap = lastDb'.meta.MaxROEpochs
                 /\ Len(roepochs'.items) <= roepochs'.cap
            ELSE roepochs' = roepochs
         /\ IF lastDb'.meta.MaxRWEpochs # 0
            THEN /\ rwepochs'.cap = lastDb'.meta.MaxRWEpochs
                 /\ Len(rwepochs'.items) <= rwepochs'.cap
            ELSE rwepochs' = rwepochs]_vars

\* C23 witness: an Edit supplied no read-only capacity and a smaller read-write
\* capacity, and the resize closed an epoch
C23_EditShrankOne ==
    /\ lastDb.op = "Edit"
    /\ lastDb.meta.MaxROEpochs = 0
    /\ lastDb.meta.MaxRWEpochs = 1
    /\ md.MaxRWEpochs = 1
    /\ md.MaxROEpochs # 0
    /\ lastDb.closed # << >>

----------------------------------------------------------------------------
\* The wire codec (protocol.pb.go).
\*
\* A byte is a number in 0..255 and a buffer a sequence of bytes; Go's index
\* iNdEx is kept 0-based, so data[iNdEx] is written data[iNdEx + 1].  A 64-bit
\* word (uint64, int64 or int) is kept exactly, as its ten groups of 7 bits,
\* least significant first; the tenth group holds bit 63 alone.

Groups == 10

Zero64 == [k \in 1..Groups |-> 0]

\* the word of a small natural number (below 2^31)
U64(n) ==
    [k \in 1..Groups |-> IF k <= 4 THEN (n \div (128 ^ (k - 1))) % 128
                         ELSE IF k = 5 THEN n \div (128 ^ 4)
                         ELSE 0]

\* the word of the int64 -1
MinusOne64 == [k \in 1..Groups |-> IF k < Groups THEN 127 ELSE 1]

\* the largest int64, 2^63 - 1
MaxInt64 == [k \in 1..Groups |-> IF k < Groups THEN 127 ELSE 0]

\* bits 0..27 of a word
Low(v) == v[1] + 128 * v[2] + 16384 * v[3] + 2097152 * v[4]

\* the word read as a signed integer is negative
Neg(v) == v[Groups] = 1

\* the word read as a signed integer lies in 0..2^28-1
IsSmall(v) == \A k \in 5..Groups : v[k] = 0

\* v > l for a signed word v and a small l >= 0
Gt(v, l) == ~Neg(v) /\ (~IsSmall(v) \/ Low(v) > l)

\* v < l for a signed word v and a small l >= 0
Lt(v, l) == Neg(v) \/ (IsSmall(v) /\ Low(v) < l)

\* the carry of an addition running through the groups from k on, wrapping at
\* 2^64 as Go's integer addition does
RECURSIVE Carry(_, _, _)
Carry(v, k, c) ==
    IF k > Groups \/ c = 0 THEN v
    ELSE LET base == IF k = Groups THEN 2 ELSE 128
             s == v[k] + c
         IN Carry([v EXCEPT ![k] = s % base], k + 1, s \div base)

\* v + n in 64 bits, for a small n >= 0
Add64(v, n) ==
    LET s == Low(v) + n
        low == U64(s % 268435456)
    IN Carry([k \in 1..Groups |-> IF k <= 4 THEN low[k] ELSE v[k]], 5,
             s \div 268435456)

\* the position of the highest group that is not zero, at least 1: the number
\* of bytes of the shortest varint of the word
sovProtocol(x) ==
    IF x = Zero64 THEN 1
    ELSE CHOOSE n \in 1..Groups : x[n] # 0 /\ \A k \in (n + 1)..Groups : x[k] = 0

\* the varint of a word with the high bit set on no byte
encodeVarintNoMore(v) == [k \in 1..sovProtocol(v) |-> v[k]]

\* the varint of a word: 7 bits to a byte, the high bit set on all but the last
encodeVarintProtocol(v) ==
    [k \in 1..sovProtocol(v) |-> IF k < sovProtocol(v) THEN v[k] + 128 ELSE v[k]]

\* the inline varint loop of the decoders, from the 0-based index i: group k
\* receives the low 7 bits of the k-th byte; bits shifted beyond bit 63 are lost
RECURSIVE VarintLoop(_, _, _, _)
VarintLoop(data, i, k, v) ==
    IF i >= Len(data) THEN [err |-> "ErrUnexpectedEOF"]
    ELSE LET b == data[i + 1]
             g == b % 128
             v2 == IF k < Groups THEN [v EXCEPT ![k] = g]
                   ELSE IF k = Groups THEN [v EXCEPT ![k] = g % 2]
                   ELSE v
         IN IF b < 128 THEN [err |-> "nil", v |-> v2, i |-> i + 1]
            ELSE VarintLoop(data, i + 1, k + 1, v2)

DecodeVarint(data, i) == VarintLoop(data, i, 1, Zero64)

\* fieldNum := int32(wire >> 3): bits 3..34 of the tag.  Every field number of
\* the messages is below 16; any other number is reported as 16.
FieldNum(w) ==
    IF w[2] = 0 /\ w[3] = 0 /\ w[4] = 0 /\ w[5] = 0 THEN w[1] \div 8 ELSE 16

\* wireType := int(wire & 0x7)
WireType(w) == w[1] % 8

\* data[from:to] for 0-based small indexes with from <= to <= len(data)
Slice(data, from, to) == SubSeq(data, from + 1, to)

\* data[from:]
Tail0(data, from) == SubSeq(data, from + 1, Len(data))

\* the element of a set of one element.  Only({e(x) : x \in {v}}) is e(v) with v
\* evaluated once, where LET x == v IN e(x) would evaluate v at every use of x.
Only(S) == CHOOSE x \in S : TRUE

\* the varint skipped by skipProtocol (wire type 0): bytes up to the first one
\* below 0x80
RECURSIVE SkipVarint(_, _)
SkipVarint(data, i) ==
    IF i >= Len(data) THEN [err |-> "ErrUnexpectedEOF"]
    ELSE IF data[i + 1] < 128 THEN [err |-> "nil", n |-> U64(i + 1)]
    ELSE SkipVarint(data, i + 1)

\* skipProtocol(data): the number of bytes of the field at the start of data, a
\* 64-bit int.  Only the tag and a length prefix are read; the 8, 4 or length
\* bytes of the value are added without a look at the buffer.
RECURSIVE skipProtocol(_)
RECURSIVE SkipGroup(_, _)
skipProtocol(data) ==
    IF Len(data) = 0 THEN [err |-> "panic"]
    ELSE Only({
           IF t.err # "nil" THEN [err |-> t.err]
           ELSE CASE WireType(t.v) = 0 -> SkipVarint(data, t.i)
                  [] WireType(t.v) = 1 -> [err |-> "nil", n |-> U64(t.i + 8)]
                  [] WireType(t.v) = 2 ->
                       Only({IF len.err # "nil" THEN [err |-> len.err]
                             ELSE IF Neg(len.v) THEN [err |-> "ErrInvalidLength"]
                             ELSE [err |-> "nil", n |-> Add64(len.v, len.i)] :
                             len \in {DecodeVarint(data, t.i)}})
                  [] WireType(t.v) = 3 -> SkipGroup(data, t.i)
                  [] WireType(t.v) = 4 -> [err |-> "nil", n |-> U64(t.i)]
                  [] WireType(t.v) = 5 -> [err |-> "nil", n |-> U64(t.i + 4)]
                  [] OTHER -> [err |-> "illegal wireType"] :
           t \in {DecodeVarint(data, 0)}})

\* the fields of a group (wire type 3) are skipped up to the end-group tag
SkipGroup(data, start) ==
    Only({
      IF inner.err # "nil" THEN [err |-> inner.err]
      ELSE IF WireType(inner.v) = 4 THEN [err |-> "nil", n |-> U64(inner.i)]
      ELSE Only({
             IF next.err # "nil" THEN [err |-> next.err]
             ELSE IF Neg(Add64(next.n, start)) THEN [err |-> "panic"]
             ELSE IF ~Lt(Add64(next.n, start), Len(data))
                  THEN [err |-> "ErrUnexpectedEOF"]
             ELSE Only({SkipGroup(data, at) : at \in {Low(Add64(next.n, start))}}) :
             next \in {skipProtocol(Tail0(data, start))}}) :
      inner \in {DecodeVarint(data, start)}})

\* the default branch without the step back over the tag
UnknownNoStepBack(data, i, tag) ==
    Only({
      IF skip.err # "nil" THEN [err |-> skip.err]
      ELSE IF Neg(skip.n) THEN [err |-> "ErrInvalidLength"]
      ELSE IF Gt(Add64(skip.n, i), Len(data)) THEN [err |-> "ErrUnexpectedEOF"]
      ELSE IF Neg(Add64(skip.n, i)) THEN [err |-> "panic"]
      ELSE [err |-> "nil", i |-> Low(Add64(skip.n, i))] :
      skip \in {Only({skipProtocol(tail) : tail \in {Tail0(data, i)}})}})

\* the default branch of every decoder: the tag that was read as the word tag,
\* ending before the index i, is stepped back over and the field is skipped.
\* An index that wrapped to a negative number is used by the next data[iNdEx].
Unknown(data, i, tag) ==
    Only({
      IF skip.err # "nil" THEN [err |-> skip.err]
      ELSE IF Neg(skip.n) THEN [err |-> "ErrInvalidLength"]
      ELSE IF Gt(Add64(skip.n, i - sovProtocol(tag)), Len(data))
           THEN [err |-> "ErrUnexpectedEOF"]
      ELSE IF Neg(Add64(skip.n, i - sovProtocol(tag))) THEN [err |-> "panic"]
      ELSE [err |-> "nil", i |-> Low(Add64(skip.n, i - sovProtocol(tag)))] :
      skip \in {Only({skipProtocol(tail) :
                      tail \in {Tail0(data, i - sovProtocol(tag))}})}})

\* a length-delimited value whose length is read into a uint64 (strings): the
\* test stringLen < 0 never holds; postIndex := iNdEx + int(stringLen) wraps,
\* and data[iNdEx:postIndex] panics when postIndex < iNdEx
ReadString(data, i) ==
    Only({
      IF len.err # "nil" THEN [err |-> len.err]
      ELSE Only({
             IF Gt(postIndex, Len(data)) THEN [err |-> "ErrUnexpectedEOF"]
             ELSE IF Lt(postIndex, len.i) THEN [err |-> "panic"]
             ELSE [err |-> "nil", s |-> Slice(data, len.i, Low(postIndex)),
                   i |-> Low(postIndex)] :
             postIndex \in {Add64(len.v, len.i)}}) :
      len \in {DecodeVarint(data, i)}})

\* a length-delimited value whose length is read into an int (sub-messages):
\* a negative msglen is refused, a wrapped postIndex is not
ReadMessage(data, i) ==
    Only({
      IF len.err # "nil" THEN [err |-> len.err]
      ELSE Only({
             IF Neg(len.v) THEN [err |-> "ErrInvalidLength"]
             ELSE IF Gt(postIndex, Len(data)) THEN [err |-> "ErrUnexpectedEOF"]
             ELSE IF Lt(postIndex, len.i) THEN [err |-> "panic"]
             ELSE [err |-> "nil", s |-> Slice(data, len.i, Low(postIndex)),
                   i |-> Low(postIndex)] :
             postIndex \in {Add64(len.v, len.i)}}) :
      len \in {DecodeVarint(data, i)}})

\* a 64-bit fixed value: eight bytes, least significant first
ReadFixed64(data, i) ==
    IF i + 8 > Len(data) THEN [err |-> "ErrUnexpectedEOF"]
    ELSE [err |-> "nil", v |-> Slice(data, i, i + 8), i |-> i + 8]

\* a pointer that is nil
Nil == [nil |-> TRUE]

\* the concatenation of the sequences of a sequence
RECURSIVE Flatten(_)
Flatten(ss) == IF ss = << >> THEN << >> ELSE Head(ss) \o Flatten(Tail(ss))

\* a length-delimited field: tag, length, bytes
Delimited(tag, b) == <<tag>> \o encodeVarintProtocol(U64(Len(b))) \o b

\* a field that is written only when its value is not the zero value
Opt(written, field) == IF written THEN <<field>> ELSE << >>

\* a repeated field: one length-delimited field for each element, in order
Repeated(tag, bs) == [k \in 1..Len(bs) |-> Delimited(tag, bs[k])]

\* a float64 is kept as the eight bytes of math.Float64bits, least significant
\* first; the floats 0 and -0 are the two that compare equal to 0
PosZero == Zeros(8)

NegZero == <<0, 0, 0, 0, 0, 0, 0, 128>>

FloatIsZero(f) == f = PosZero \/ f = NegZero

\* the messages as Reset() leaves them
NewReqTrack == [Time |-> Zero64, Total |-> PosZero, Count |-> Zero64, Fields |-> << >>]

NewReqFetch == [From |-> Zero64, To |-> Zero64, Fields |-> << >>]

NewEmpty == [empty |-> TRUE]

NewResFetch == [Chunks |-> << >>]

NewRequest == [Database |-> << >>, Track |-> Nil, Fetch |-> Nil, Sync |-> Nil]

NewResponse == [Error |-> << >>, Track |-> Nil, Fetch |-> Nil, Sync |-> Nil]

NewBatch == [Id |-> Zero64, Batch |-> << >>]

\* The encoders.  XFields(m) is the sequence of the fields that MarshalTo
\* writes, each as its bytes, and XMarshal(m) the buffer they make up.

\* (m *ReqTrack) MarshalTo(data)
ReqTrackFields(m) ==
    Opt(m.Time # Zero64, <<8>> \o encodeVarintProtocol(m.Time))
      \o Opt(~FloatIsZero(m.Total), <<17>> \o m.Total)
      \o Opt(m.Count # Zero64, <<24>> \o encodeVarintProtocol(m.Count))
      \o Repeated(34, m.Fields)

ReqTrackMarshal(m) == Flatten(ReqTrackFields(m))

\* (m *ResTrack) MarshalTo(data), (m *ReqSync) MarshalTo(data) and
\* (m *ResSync) MarshalTo(data)
EmptyFields(m) == << >>

EmptyMarshal(m) == Flatten(EmptyFields(m))

\* (m *ReqFetch) MarshalTo(data)
ReqFetchFields(m) ==
    Opt(m.From # Zero64, <<8>> \o encodeVarintProtocol(m.From))
      \o Opt(m.To # Zero64, <<16>> \o encodeVarintProtocol(m.To))
      \o Repeated(26, m.Fields)

ReqFetchMarshal(m) == Flatten(ReqFetchFields(m))

\* database.Chunk is defined by the block store; a chunk is kept as the bytes
\* its own codec writes and reads
ChunkMarshal(c) == c

ChunkUnmarshal(data) == [err |-> "nil", msg |-> data]

\* (m *ResFetch) MarshalTo(data)
ResFetchFields(m) ==
    Repeated(10, [k \in 1..Len(m.Chunks) |-> ChunkMarshal(m.Chunks[k])])

ResFetchMarshal(m) == Flatten(ResFetchFields(m))

\* (m *Request) MarshalTo(data)
RequestFields(m) ==
    Opt(Len(m.Database) > 0, Delimited(10, m.Database))
      \o (IF m.Track = Nil THEN << >> ELSE <<Delimited(18, ReqTrackMarshal(m.Track))>>)
      \o (IF m.Fetch = Nil THEN << >> ELSE <<Delimited(26, ReqFetchMarshal(m.Fetch))>>)
      \o (IF m.Sync = Nil THEN << >> ELSE <<Delimited(34, EmptyMarshal(m.Sync))>>)

RequestMarshal(m) == Flatten(RequestFields(m))

\* (m *Response) MarshalTo(data)
ResponseFields(m) ==
    Opt(Len(m.Error) > 0, Delimited(10, m.Error))
      \o (IF m.Track = Nil THEN << >> ELSE <<Delimited(18, EmptyMarshal(m.Track))>>)
      \o (IF m.Fetch = Nil THEN << >> ELSE <<Delimited(26, ResFetchMarshal(m.Fetch))>>)
      \o (IF m.Sync = Nil THEN << >> ELSE <<Delimited(34, EmptyMarshal(m.Sync))>>)

ResponseMarshal(m) == Flatten(ResponseFields(m))

\* (m *RequestBatch) MarshalTo(data)
RequestBatchFields(m) ==
    Opt(m.Id # Zero64, <<8>> \o encodeVarintProtocol(m.Id))
      \o Repeated(18, [k \in 1..Len(m.Batch) |-> RequestMarshal(m.Batch[k])])

RequestBatchMarshal(m) == Flatten(RequestBatchFields(m))

\* (m *ResponseBatch) MarshalTo(data)
ResponseBatchFields(m) ==
    Opt(m.Id # Zero64, <<8>> \o encodeVarintProtocol(m.Id))
      \o Repeated(18, [k \in 1..Len(m.Batch) |-> ResponseMarshal(m.Batch[k])])

ResponseBatchMarshal(m) == Flatten(ResponseBatchFields(m))

\* The decoders: the loop of Unmarshal from the 0-based index i0 on, filling m0.
\* A decoder that fails returns the error alone.

\* (m *ReqTrack) Unmarshal(data)
RECURSIVE ReqTrackFrom(_, _, _)
ReqTrackFrom(m0, data0, i0) ==
    Only({
      IF i >= Len(data) THEN [err |-> "nil", msg |-> m]
      ELSE Only({
             IF t.err # "nil" THEN [err |-> t.err]
             ELSE CASE FieldNum(t.v) = 1 ->
                     IF WireType(t.v) # 0 THEN [err |-> "wrong wireType"]
                     ELSE Only({IF x.err # "nil" THEN [err |-> x.err]
                               ELSE ReqTrackFrom([m EXCEPT !.Time = x.v], data, x.i) :
                               x \in {DecodeVarint(data, t.i)}})
                [] FieldNum(t.v) = 2 ->
                     IF WireType(t.v) # 1 THEN [err |-> "wrong wireType"]
                     ELSE Only({IF x.err # "nil" THEN [err |-> x.err]
                               ELSE ReqTrackFrom([m EXCEPT !.Total = x.v], data, x.i) :
                               x \in {ReadFixed64(data, t.i)}})
                [] FieldNum(t.v) = 3 ->
                     IF WireType(t.v) # 0 THEN [err |-> "wrong wireType"]
                     ELSE Only({IF x.err # "nil" THEN [err |-> x.err]
                               ELSE ReqTrackFrom([m EXCEPT !.Count = x.v], data, x.i) :
                               x \in {DecodeVarint(data, t.i)}})
                [] FieldNum(t.v) = 4 ->
                     IF WireType(t.v) # 2 THEN [err |-> "wrong wireType"]
                     ELSE Only({IF x.err # "nil" THEN [err |-> x.err]
                               ELSE ReqTrackFrom([m EXCEPT !.Fields = Append(m.Fields, x.s)], data, x.i) :
                               x \in {ReadString(data, t.i)}})
                [] OTHER ->
                     Only({IF u.err # "nil" THEN [err |-> u.err]
                           ELSE ReqTrackFrom(m, data, u.i) :
                           u \in {Unknown(data, t.i, t.v)}}) :
             t \in {DecodeVarint(data, i)}}) :
      m \in {m0}, data \in {data0}, i \in {i0}})

\* (m *ResTrack) Unmarshal(data), (m *ReqSync) Unmarshal(data) and
\* (m *ResSync) Unmarshal(data): every field is unknown
RECURSIVE EmptyFrom(_, _, _)
EmptyFrom(m0, data0, i0) ==
    Only({
      IF i >= Len(data) THEN [err |-> "nil", msg |-> m]
      ELSE Only({
             IF t.err # "nil" THEN [err |-> t.err]
             ELSE Only({IF u.err # "nil" THEN [err |-> u.err]
                           ELSE EmptyFrom(m, data, u.i) :
                           u \in {Unknown(data, t.i, t.v)}}) :
             t \in {DecodeVarint(data, i)}}) :
      m \in {m0}, data \in {data0}, i \in {i0}})

\* (m *ReqFetch) Unmarshal(data)
RECURSIVE ReqFetchFrom(_, _, _)
ReqFetchFrom(m0, data0, i0) ==
    Only({
      IF i >= Len(data) THEN [err |-> "nil", msg |-> m]
      ELSE Only({
             IF t.err # "nil" THEN [err |-> t.err]
             ELSE CASE FieldNum(t.v) = 1 ->
                     IF WireType(t.v) # 0 THEN [err |-> "wrong wireType"]
                     ELSE Only({IF x.err # "nil" THEN [err |-> x.err]
                               ELSE ReqFetchFrom([m EXCEPT !.From = x.v], data, x.i) :
                               x \in {DecodeVarint(data, t.i)}})
                [] FieldNum(t.v) = 2 ->
                     IF WireType(t.v) # 0 THEN [err |-> "wrong wireType"]
                     ELSE Only({IF x.err # "nil" THEN [err |-> x.err]
                               ELSE ReqFetchFrom([m EXCEPT !.To = x.v], data, x.i) :
                               x \in {DecodeVarint(data, t.i)}})
                [] FieldNum(t.v) = 3 ->
                     IF WireType(t.v) # 2 THEN [err |-> "wrong wireType"]
                     ELSE Only({IF x.err # "nil" THEN [err |-> x.err]
                               ELSE ReqFetchFrom([m EXCEPT !.Fields = Append(m.Fields, x.s)], data, x.i) :
                               x \in {ReadString(data, t.i)}})
                [] OTHER ->
                     Only({IF u.err # "nil" THEN [err |-> u.err]
                           ELSE ReqFetchFrom(m, data, u.i) :
                           u \in {Unknown(data, t.i, t.v)}}) :
             t \in {DecodeVarint(data, i)}}) :
      m \in {m0}, data \in {data0}, i \in {i0}})

\* (m *ResFetch) Unmarshal(data)
RECURSIVE ResFetchFrom(_, _, _)
ResFetchFrom(m0, data0, i0) ==
    Only({
      IF i >= Len(data) THEN [err |-> "nil", msg |-> m]
      ELSE Only({
             IF t.err # "nil" THEN [err |-> t.err]
             ELSE CASE FieldNum(t.v) = 1 ->
                     IF WireType(t.v) # 2 THEN [err |-> "wrong wireType"]
                     ELSE Only({IF x.err # "nil" THEN [err |-> x.err]
                               ELSE Only({IF sub.err # "nil" THEN [err |-> sub.err]
                                          ELSE ResFetchFrom([m EXCEPT !.Chunks = Append(m.Chunks, sub.msg)], data, x.i) :
                                          sub \in {ChunkUnmarshal(x.s)}}) :
                               x \in {ReadMessage(data, t.i)}})
                [] OTHER ->
                     Only({IF u.err # "nil" THEN [err |-> u.err]
                           ELSE ResFetchFrom(m, data, u.i) :
                           u \in {Unknown(data, t.i, t.v)}}) :
             t \in {DecodeVarint(data, i)}}) :
      m \in {m0}, data \in {data0}, i \in {i0}})

\* (m *Request) Unmarshal(data)
RECURSIVE RequestFrom(_, _, _)
RequestFrom(m0, data0, i0) ==
    Only({
      IF i >= Len(data) THEN [err |-> "nil", msg |-> m]
      ELSE Only({
             IF t.err # "nil" THEN [err |-> t.err]
             ELSE CASE FieldNum(t.v) = 1 ->
                     IF WireType(t.v) # 2 THEN [err |-> "wrong wireType"]
                     ELSE Only({IF x.err # "nil" THEN [err |-> x.err]
                               ELSE RequestFrom([m EXCEPT !.Database = x.s], data, x.i) :
                               x \in {ReadString(data, t.i)}})
                [] FieldNum(t.v) = 2 ->
                     IF WireType(t.v) # 2 THEN [err |-> "wrong wireType"]
                     ELSE Only({IF x.err # "nil" THEN [err |-> x.err]
                               ELSE Only({IF sub.err # "nil" THEN [err |-> sub.err]
                                          ELSE RequestFrom([m EXCEPT !.Track = sub.msg], data, x.i) :
                                          sub \in {ReqTrackFrom(IF m.Track = Nil THEN NewReqTrack ELSE m.Track, x.s, 0)}}) :
                               x \in {ReadMessage(data, t.i)}})
                [] FieldNum(t.v) = 3 ->
                     IF WireType(t.v) # 2 THEN [err |-> "wrong wireType"]
                     ELSE Only({IF x.err # "nil" THEN [err |-> x.err]
                               ELSE Only({IF sub.err # "nil" THEN [err |-> sub.err]
                                          ELSE RequestFrom([m EXCEPT !.Fetch = sub.msg], data, x.i) :
                                          sub \in {ReqFetchFrom(IF m.Fetch = Nil THEN NewReqFetch ELSE m.Fetch, x.s, 0)}}) :
                               x \in {ReadMessage(data, t.i)}})
                [] FieldNum(t.v) = 4 ->
                     IF WireType(t.v) # 2 THEN [err |-> "wrong wireType"]
                     ELSE Only({IF x.err # "nil" THEN [err |-> x.err]
                               ELSE Only({IF sub.err # "nil" THEN [err |-> sub.err]
                                          ELSE RequestFrom([m EXCEPT !.Sync = sub.msg], data, x.i) :
                                          sub \in {EmptyFrom(IF m.Sync = Nil THEN NewEmpty ELSE m.Sync, x.s, 0)}}) :
                               x \in {ReadMessage(data, t.i)}})
                [] OTHER ->
                     Only({IF u.err # "nil" THEN [err |-> u.err]
                           ELSE RequestFrom(m, data, u.i) :
                           u \in {Unknown(data, t.i, t.v)}}) :
             t \in {DecodeVarint(data, i)}}) :
      m \in {m0}, data \in {data0}, i \in {i0}})

\* (m *Response) Unmarshal(data)
RECURSIVE ResponseFrom(_, _, _)
ResponseFrom(m0, data0, i0) ==
    Only({
      IF i >= Len(data) THEN [err |-> "nil", msg |-> m]
      ELSE Only({
             IF t.err # "nil" THEN [err |-> t.err]
             ELSE CASE FieldNum(t.v) = 1 ->
                     IF WireType(t.v) # 2 THEN [err |-> "wrong wireType"]
                     ELSE Only({IF x.err # "nil" THEN [err |-> x.err]
                               ELSE ResponseFrom([m EXCEPT !.Error = x.s], data, x.i) :
                               x \in {ReadString(data, t.i)}})
                [] FieldNum(t.v) = 2 ->
                     IF WireType(t.v) # 2 THEN [err |-> "wrong wireType"]
                     ELSE Only({IF x.err # "nil" THEN [err |-> x.err]
                               ELSE Only({IF sub.err # "nil" THEN [err |-> sub.err]
                                          ELSE ResponseFrom([m EXCEPT !.Track = sub.msg], data, x.i) :
                                          sub \in {EmptyFrom(IF m.Track = Nil THEN NewEmpty ELSE m.Track, x.s, 0)}}) :
                               x \in {ReadMessage(data, t.i)}})
                [] FieldNum(t.v) = 3 ->
                     IF WireType(t.v) # 2 THEN [err |-> "wrong wireType"]
                     ELSE Only({IF x.err # "nil" THEN [err |-> x.err]
                               ELSE Only({IF sub.err # "nil" THEN [err |-> sub.err]
                                          ELSE ResponseFrom([m EXCEPT !.Fetch = sub.msg], data, x.i) :
                                          sub \in {ResFetchFrom(IF m.Fetch = Nil THEN NewResFetch ELSE m.Fetch, x.s, 0)}}) :
                               x \in {ReadMessage(data, t.i)}})
                [] FieldNum(t.v) = 4 ->
                     IF WireType(t.v) # 2 THEN [err |-> "wrong wireType"]
                     ELSE Only({IF x.err # "nil" THEN [err |-> x.err]
                               ELSE Only({IF sub.err # "nil" THEN [err |-> sub.err]
                                          ELSE ResponseFrom([m EXCEPT !.Sync = sub.msg], data, x.i) :
                                          sub \in {EmptyFrom(IF m.Sync = Nil THEN NewEmpty ELSE m.Sync, x.s, 0)}}) :
                               x \in {ReadMessage(data, t.i)}})
                [] OTHER ->
                     Only({IF u.err # "nil" THEN [err |-> u.err]
                           ELSE ResponseFrom(m, data, u.i) :
                           u \in {Unknown(data, t.i, t.v)}}) :
             t \in {DecodeVarint(data, i)}}) :
      m \in {m0}, data \in {data0}, i \in {i0}})

\* (m *RequestBatch) Unmarshal(data)
RECURSIVE RequestBatchFrom(_, _, _)
RequestBatchFrom(m0, data0, i0) ==
    Only({
      IF i >= Len(data) THEN [err |-> "nil", msg |-> m]
      ELSE Only({
             IF t.err # "nil" THEN [err |-> t.err]
             ELSE CASE FieldNum(t.v) = 1 ->
                     IF WireType(t.v) # 0 THEN [err |-> "wrong wireType"]
                     ELSE Only({IF x.err # "nil" THEN [err |-> x.err]
                               ELSE RequestBatchFrom([m EXCEPT !.Id = x.v], data, x.i) :
                               x \in {DecodeVarint(data, t.i)}})
                [] FieldNum(t.v) = 2 ->
                     IF WireType(t.v) # 2 THEN [err |-> "wrong wireType"]
                     ELSE Only({IF x.err # "nil" THEN [err |-> x.err]
                               ELSE Only({IF sub.err # "nil" THEN [err |-> sub.err]
                                          ELSE RequestBatchFrom([m EXCEPT !.Batch = Append(m.Batch, sub.msg)], data, x.i) :
                                          sub \in {RequestFrom(NewRequest, x.s, 0)}}) :
                               x \in {ReadMessage(data, t.i)}})
                [] OTHER ->
                     Only({IF u.err # "nil" THEN [err |-> u.err]
                           ELSE RequestBatchFrom(m, data, u.i) :
                           u \in {Unknown(data, t.i, t.v)}}) :
             t \in {DecodeVarint(data, i)}}) :
      m \in {m0}, data \in {data0}, i \in {i0}})

\* (m *ResponseBatch) Unmarshal(data)
RECURSIVE ResponseBatchFrom(_, _, _)
ResponseBatchFrom(m0, data0, i0) ==
    Only({
      IF i >= Len(data) THEN [err |-> "nil", msg |-> m]
      ELSE Only({
             IF t.err # "nil" THEN [err |-> t.err]
             ELSE CASE FieldNum(t.v) = 1 ->
                     IF WireType(t.v) # 0 THEN [err |-> "wrong wireType"]
                     ELSE Only({IF x.err # "nil" THEN [err |-> x.err]
                               ELSE ResponseBatchFrom([m EXCEPT !.Id = x.v], data, x.i) :
                               x \in {DecodeVarint(data, t.i)}})
                [] FieldNum(t.v) = 2 ->
                     IF WireType(t.v) # 2 THEN [err |-> "wrong wireType"]
                     ELSE Only({IF x.err # "nil" THEN [err |-> x.err]
                               ELSE Only({IF sub.err # "nil" THEN [err |-> sub.err]
                                          ELSE ResponseBatchFrom([m EXCEPT !.Batch = Append(m.Batch, sub.msg)], data, x.i) :
                                          sub \in {ResponseFrom(NewResponse, x.s, 0)}}) :
                               x \in {ReadMessage(data, t.i)}})
                [] OTHER ->
                     Only({IF u.err # "nil" THEN [err |-> u.err]
                           ELSE ResponseBatchFrom(m, data, u.i) :
                           u \in {Unknown(data, t.i, t.v)}}) :
             t \in {DecodeVarint(data, i)}}) :
      m \in {m0}, data \in {data0}, i \in {i0}})

\* The ten message types, their fresh values, encoders and decoders.

MessageTypes ==
    {"ReqTrack", "ResTrack", "ReqFetch", "ResFetch", "ReqSync", "ResSync",
     "Request", "Response", "RequestBatch", "ResponseBatch"}

EmptyTypes == {"ResTrack", "ReqSync", "ResSync"}

Fresh(type) ==
    CASE type = "ReqTrack" -> NewReqTrack
      [] type = "ReqFetch" -> NewReqFetch
      [] type = "ResFetch" -> NewResFetch
      [] type = "Request" -> NewRequest
      [] type = "Response" -> NewResponse
      [] type \in {"RequestBatch", "ResponseBatch"} -> NewBatch
      [] OTHER -> NewEmpty

FieldsOf(type, m) ==
    CASE type = "ReqTrack" -> ReqTrackFields(m)
      [] type = "ReqFetch" -> ReqFetchFields(m)
      [] type = "ResFetch" -> ResFetchFields(m)
      [] type = "Request" -> RequestFields(m)
      [] type = "Response" -> ResponseFields(m)
      [] type = "RequestBatch" -> RequestBatchFields(m)
      [] type = "ResponseBatch" -> ResponseBatchFields(m)
      [] OTHER -> EmptyFields(m)

\* m.Marshal()
MarshalOf(type, m) == Flatten(FieldsOf(type, m))

\* m.Unmarshal(data) on a fresh message m
UnmarshalOf(type, data) ==
    CASE type = "ReqTrack" -> ReqTrackFrom(NewReqTrack, data, 0)
      [] type = "ReqFetch" -> ReqFetchFrom(NewReqFetch, data, 0)
      [] type = "ResFetch" -> ResFetchFrom(NewResFetch, data, 0)
      [] type = "Request" -> RequestFrom(NewRequest, data, 0)
      [] type = "Response" -> ResponseFrom(NewResponse, data, 0)
      [] type = "RequestBatch" -> RequestBatchFrom(NewBatch, data, 0)
      [] type = "ResponseBatch" -> ResponseBatchFrom(NewBatch, data, 0)
      [] OTHER -> EmptyFrom(NewEmpty, data, 0)

\* The messages the callers encode.

One64 == <<0, 0, 0, 0, 0, 0, 240, 63>>

WireLists == {<< >>, << <<97>>, << >> >>, << <<98, 0>>, <<97>> >>}

ReqTracks ==
    [Time : {Zero64, U64(300), MinusOne64}, Total : {PosZero, NegZero, One64},
     Count : {Zero64, U64(128)}, Fields : WireLists]

ReqFetches ==
    [From : {Zero64, U64(1)}, To : {Zero64, U64(16384)},
     Fields : {<< >>, << <<97>> >>, << <<97>>, <<97>> >>}]

Chunks == {<< >>, <<8, 1>>}

ResFetches == [Chunks : {<< >>, << <<8, 1>> >>, << << >>, <<8, 1>> >>}]

SomeReqTrack ==
    [Time |-> U64(300), Total |-> One64, Count |-> Zero64, Fields |-> << <<97>>, << >> >>]

SomeReqFetch == [From |-> U64(1), To |-> Zero64, Fields |-> << <<97>> >>]

Requests ==
    [Database : {<< >>, <<97>>}, Track : {Nil, NewReqTrack, SomeReqTrack},
     Fetch : {Nil, SomeReqFetch}, Sync : {Nil, NewEmpty}]

Responses ==
    [Error : {<< >>, <<101>>}, Track : {Nil, NewEmpty},
     Fetch : {Nil, NewResFetch, [Chunks |-> << <<8, 1>>, << >> >>]},
     Sync : {Nil, NewEmpty}]

SomeRequest == [NewRequest EXCEPT !.Database = <<97>>, !.Track = SomeReqTrack]

SomeResponse == [NewResponse EXCEPT !.Error = <<101>>]

Batches(fresh, some) ==
    [Id : {Zero64, U64(1), MinusOne64},
     Batch : {<< >>, <<fresh>>, <<some, fresh>>, <<fresh, some>>, <<some, some>>}]

MessagesOf(type) ==
    CASE type = "ReqTrack" -> ReqTracks
      [] type = "ReqFetch" -> ReqFetches
      [] type = "ResFetch" -> ResFetches
      [] type = "Request" -> Requests
      [] type = "Response" -> Responses
      [] type = "RequestBatch" -> Batches(NewRequest, SomeRequest)
      [] type = "ResponseBatch" -> Batches(NewResponse, SomeResponse)
      [] OTHER -> {NewEmpty}

\* m.Marshal() followed by Unmarshal of the bytes into a fresh message
WireRoundTrip(type, m) ==
    /\ wire' = [op |-> "RoundTrip", type |-> type, msg |-> m,
                data |-> MarshalOf(type, m),
                res |-> UnmarshalOf(type, MarshalOf(type, m))]
    /\ UNCHANGED <<idxVars, dbVars, nfault, conVars>>

\* The frames handed to the decoders.

\* the tags of the length-delimited fields of a type: its strings and its
\* sub-messages
StringTags(type) ==
    CASE type = "ReqTrack" -> {34}
      [] type = "ReqFetch" -> {26}
      [] type \in {"Request", "Response"} -> {10}
      [] OTHER -> {}

MessageTags(type) ==
    CASE type = "ResFetch" -> {10}
      [] type \in {"Request", "Response"} -> {18, 26, 34}
      [] type \in {"RequestBatch", "ResponseBatch"} -> {18}
      [] OTHER -> {}

\* field 15, which no message has, as a varint and as a length-delimited field
UnknownVarintTag == 120

UnknownBytesTag == 122

\* the lengths a prefix may carry: small ones, 2^63 - 11, 2^63 - 1, 2^63,
\* 2^64 - 2 and 2^64 - 1
FrameLengths ==
    {U64(0), U64(1), U64(2), U64(3), U64(200),
     [MaxInt64 EXCEPT ![1] = 117], MaxInt64, [Zero64 EXCEPT ![Groups] = 1],
     [MinusOne64 EXCEPT ![1] = 126], MinusOne64}

FramePrefixes == {<< >>, <<UnknownVarintTag, 1>>}

FrameRests == {<< >>, <<97>>, <<8, 1>>}

\* the length, read as an unsigned number, is more than the bytes that follow
Exceeds(len, rest) == ~IsSmall(len) \/ Low(len) > Len(rest)

\* Unmarshal of a frame that ends with a length-delimited field: the bytes of
\* prefix, the tag, the length and the bytes that remain
WireUnmarshal(type, prefix, tag, len, rest) ==
    /\ tag \in StringTags(type) \cup MessageTags(type) \cup {UnknownBytesTag}
    /\ wire' = [op |-> "Unmarshal", type |-> type, tag |-> tag, len |-> len,
                rest |-> rest,
                data |-> prefix \o <<tag>> \o encodeVarintProtocol(len) \o rest,
                res |-> UnmarshalOf(type,
                          prefix \o <<tag>> \o encodeVarintProtocol(len) \o rest)]
    /\ UNCHANGED <<idxVars, dbVars, nfault, conVars>>

\* Unmarshal of the first n bytes of an encoded message
WireTruncated(type, m, n) ==
    /\ n < Len(MarshalOf(type, m))
    /\ wire' = [op |-> "Truncated", type |-> type, msg |-> m,
                data |-> SubSeq(MarshalOf(type, m), 1, n),
                res |-> UnmarshalOf(type, SubSeq(MarshalOf(type, m), 1, n))]
    /\ UNCHANGED <<idxVars, dbVars, nfault, conVars>>

\* the tag of the field number and wire type, as a word; 536870911 = 2^29 - 1
\* is the largest field number
TagWord(num, wt) ==
    IF num = 536870911 THEN [k \in 1..Groups |-> IF k = 1 THEN 120 + wt
                                                 ELSE IF k <= 4 THEN 127
                                                 ELSE IF k = 5 THEN 15 ELSE 0]
    ELSE U64(num * 8 + wt)

UnknownNumbers == {15, 536870911}

\* well-formed values of the wire types 0 (varint), 1 (64-bit) and 2
\* (length-delimited)
UnknownValues(wt) ==
    CASE wt = 0 -> {<<0>>, <<172, 2>>, encodeVarintProtocol(MinusOne64)}
      [] wt = 1 -> {<<1, 2, 3, 4, 5, 6, 7, 8>>}
      [] wt = 2 -> {<<0>>, <<2, 97, 8>>}

\* the fields a type does not know
UnknownFields(type) ==
    UNION {{encodeVarintProtocol(TagWord(num, wt)) \o v :
               num \in UnknownNumbers \cup (IF type \in EmptyTypes THEN {1, 2} ELSE {}),
               v \in UnknownValues(wt)} : wt \in 0..2}

\* the largest count of fields of an encoded message of the callers
MaxFields == 6

\* Unmarshal of an encoded message with the field u put after its first k
\* fields
WireSkip(type, m, k, u) ==
    /\ k <= Len(FieldsOf(type, m))
    /\ LET fields == FieldsOf(type, m)
           data == Flatten(SubSeq(fields, 1, k)) \o u
                     \o Flatten(SubSeq(fields, k + 1, Len(fields)))
       IN wire' = [op |-> "Skip", type |-> type, msg |-> m, at |-> k, field |-> u,
                   data |-> data, res |-> UnmarshalOf(type, data),
                   plain |-> UnmarshalOf(type, MarshalOf(type, m))]
    /\ UNCHANGED <<idxVars, dbVars, nfault, conVars>>

\* the most bytes of an encoded message that a truncated frame keeps
MaxFrame == 60

\* The codec used on its own.

InitWire == IdxInit /\ DbIdle /\ nfault = 0 /\ wire = NoWire /\ ConIdle

\* one call of the codec on each input
NextWire ==
    \/ /\ wire = NoWire
       /\ \E type \in MessageTypes : \E m \in MessagesOf(type) : WireRoundTrip(type, m)
    \/ /\ wire = NoWire
       /\ \E type \in MessageTypes, prefix \in FramePrefixes, tag \in 0..255,
             len \in FrameLengths, rest \in FrameRests :
             WireUnmarshal(type, prefix, tag, len, rest)
    \/ /\ wire = NoWire
       /\ \E type \in MessageTypes : \E m \in MessagesOf(type) :
             \E n \in 0..MaxFrame : WireTruncated(type, m, n)
    \/ /\ wire = NoWire
       /\ \E type \in MessageTypes : \E m \in MessagesOf(type) :
             \E k \in 0..MaxFields, u \in UnknownFields(type) : WireSkip(type, m, k, u)

SpecWire == InitWire /\ [][NextWire]_vars

----------------------------------------------------------------------------
\* Properties of the wire codec (SpecWire).

\* Go's == on float64 does not tell 0 and -0 apart: a message with every float
\* that is zero written as +0
CanonTrack(t) == [t EXCEPT !.Total = IF FloatIsZero(@) THEN PosZero ELSE @]

CanonRequest(r) == [r EXCEPT !.Track = IF @ = Nil THEN Nil ELSE CanonTrack(@)]

Canon(type, m) ==
    CASE type = "ReqTrack" -> CanonTrack(m)
      [] type = "Request" -> CanonRequest(m)
      [] type = "RequestBatch" ->
           [m EXCEPT !.Batch = [k \in 1..Len(m.Batch) |-> CanonRequest(m.Batch[k])]]
      [] OTHER -> m

\* C24: for every message of the ten types, Unmarshal of the bytes of Marshal,
\* into a fresh message, succeeds and gives a message equal to the encoded one,
\* repeated fields and batch entries in their order; and Marshal of a fresh
\* message gives no bytes.
C24_RoundTrip ==
    wire.op = "RoundTrip" =>
        /\ wire.res.err = "nil"
        /\ Canon(wire.type, wire.res.msg) = Canon(wire.type, wire.msg)
        /\ wire.msg = Fresh(wire.type) => wire.data = << >>

\* C24 witness: a request batch with the id -1 and two different entries came
\* back as it was
C24_BatchCameBack ==
    /\ wire.op = "RoundTrip"
    /\ wire.type = "RequestBatch"
    /\ wire.msg.Id = MinusOne64
    /\ wire.msg.Batch = <<SomeRequest, NewRequest>>
    /\ wire.res.err = "nil"
    /\ wire.res.msg = wire.msg

\* C25: every Unmarshal returns a message or an error, never a panic; and a
\* frame in which the length prefix of a string or of a sub-message is more
\* than the bytes that remain, whatever 64-bit length it carries, is refused
\* with an error.
C25_MalformedRefused ==
    /\ wire.op # "none" => wire.res.err # "panic"
    /\ (wire.op = "Unmarshal"
          /\ wire.tag \in StringTags(wire.type) \cup MessageTags(wire.type)
          /\ Exceeds(wire.len, wire.rest))
         => wire.res.err \notin {"nil", "panic"}

\* C26: an encoded message into which a well-formed field with an unknown
\* number (a varint, a 64-bit fixed value or a length-delimited value) was put
\* at a field boundary is decoded without an error to the message that the
\* encoded message alone is decoded to.
C26_UnknownSkipped ==
    wire.op = "Skip" =>
        /\ wire.res.err = "nil"
        /\ wire.plain.err = "nil"
        /\ wire.res.msg = wire.plain.msg

\* C26 witness: a length-delimited field with the largest field number, put
\* between two fields of a request, was skipped
C26_SkippedInside ==
    /\ wire.op = "Skip"
    /\ wire.type = "Request"
    /\ wire.at = 1
    /\ Len(FieldsOf(wire.type, wire.msg)) >= 2
    /\ wire.field = encodeVarintProtocol(TagWord(536870911, 2)) \o <<2, 97, 8>>
    /\ wire.res.err = "nil"
    /\ wire.res.msg.Track # Nil

----------------------------------------------------------------------------
\* An index file written earlier is opened (SpecLoad).

\* most zero bytes behind the log of a file
MaxSlack == 5
\* largest size a record that is cut short announces
MaxAnnounced == 8

\* items of the records of the files
LogItemA == [Fields |-> <<"a">>, Value |-> 1]
LogItemB == [Fields |-> <<"a", "b">>, Value |-> 0]

\* save, lines 404-411: the record of an item
Record(item) == HeaderBytes(Marshal(item)) \o Marshal(item)

\* the complete records a file starts with
LogPrefixes == {<< >>, Record(LogItemA), Record(LogItemA) \o Record(LogItemB)}

\* what follows them: nothing, zeros (fewer than a size word, or preallocated
\* space), or a record that announces more bytes than the file has
LogTails ==
    {Zeros(n) : n \in 0..MaxSlack}
      \cup UNION {{LE32(k) \o SubSeq(Marshal(LogItemB), 1, j) :
                      j \in 0..Min(k - 1, Len(Marshal(LogItemB)))} : k \in 1..MaxAnnounced}

LogFiles == {p \o t : p \in LogPrefixes, t \in LogTails}

\* no index yet: a file is on disk
IdxClosed ==
    /\ trie = EmptyTrie
    /\ file \in LogFiles
    /\ woff = 0
    /\ dataSize = 0
    /\ allocating = FALSE
    /\ ronly = FALSE
    /\ opened = "closed"
    /\ session = 1
    /\ pc = [p \in Procs |-> "idle"]
    /\ cur = [p \in Procs |-> NoPut]
    /\ bgCheck = 0
    /\ bgAlloc = 0
    /\ ops = << >>
    /\ logOrder = << >>
    /\ addOrder = << >>
    /\ nput = 0
    /\ lastPut = [id |-> 0, fields |-> << >>, value |-> 0, res |-> "nil",
                  preTrie |-> EmptyTrie, preSize |-> 0]
    /\ lastQry = NoQry

InitLoad == IdxClosed /\ DbIdle /\ nfault = MaxFaults /\ wire = NoWire /\ ConIdle

NextLoad == \E ro \in BOOLEAN : IdxNew(ro)

SpecLoad == InitLoad /\ [][NextLoad]_vars

----------------------------------------------------------------------------
\* Properties of the append log: space, reopening and replay.

\* C27: with concurrent callers of Put and the background task, dataSize never
\* exceeds the size of the map, and the space a caller found at its test
\* (lines 377 and 380) is still there when that caller appends under addMutex.
C27_AppendsInsideMap ==
    /\ dataSize <= Len(file)
    /\ \A p \in Procs :
         pc[p] = "save_append" => Len(file) - dataSize - PayloadSize(p) >= 0

\* the Put with the given id: a call in progress or a call that returned
PutOf(id) ==
    IF \E p \in Procs : cur[p].id = id
    THEN LET p == CHOOSE p \in Procs : cur[p].id = id IN
         [fields |-> cur[p].fields, value |-> cur[p].value]
    ELSE LET i == CHOOSE i \in 1..Len(ops) : ops[i].id = id IN
         [fields |-> ops[i].fields, value |-> ops[i].value]

\* the record save writes for the Put with the given id: [u32 LE size][item bytes]
RecordOf(id) ==
    LET b == Marshal([Fields |-> PutOf(id).fields, Value |-> PutOf(id).value]) IN
    HeaderBytes(b) \o b

\* the records of the Puts ids, one after the other
RECURSIVE LogOf(_)
LogOf(ids) == IF ids = << >> THEN << >> ELSE RecordOf(Head(ids)) \o LogOf(Tail(ids))

\* the Puts with the given ids, added to a trie in that order
RECURSIVE Replayed(_, _)
Replayed(t, ids) ==
    IF ids = << >> THEN t
    ELSE Replayed(Add(t, [Fields |-> PutOf(Head(ids)).fields,
                          Value |-> PutOf(Head(ids)).value]), Tail(ids))

\* no Put and no background task is in progress: the index can be closed
Quiet == (\A p \in Procs : Idle(p)) /\ bgCheck = 0 /\ bgAlloc = 0

RECURSIVE WalkEnd(_, _)
WalkEnd(f, ds) ==
    IF Len(f) - ds < ItemHeaderSize THEN ds
    ELSE LET n == UnLE32(SubSeq(f, ds + 1, ds + 4)) IN
         IF n = 0 \/ ds + ItemHeaderSize + n > Len(f) THEN ds
         ELSE WalkEnd(f, ds + ItemHeaderSize + n)

\* the log of f ends in a record cut short: a nonzero size followed by fewer
\* bytes than it announces
TruncatedTail(f) ==
    LET e == WalkEnd(f, 0) IN
    /\ Len(f) - e >= ItemHeaderSize
    /\ UnLE32(SubSeq(f, e + 1, e + 4)) # 0

\* the log of f ends at a zero size or at the end of the file
CleanEnd(f) ==
    LET e == WalkEnd(f, 0) IN
    \/ Len(f) = e
    \/ Len(f) - e >= ItemHeaderSize /\ UnLE32(SubSeq(f, e + 1, e + 4)) = 0

\* C29 as stated: New on a file whose log ends in a record cut short returns an
\* index that holds exactly the items of the complete records before it.
C29_TruncatedTailIsEnd ==
    (lastQry.op = "New" /\ TruncatedTail(lastQry.file)) =>
        /\ lastQry.err = "nil"
        /\ opened = "open"
        /\ dataSize = WalkEnd(lastQry.file, 0)
        /\ trie = Load(SubSeq(lastQry.file, 1, WalkEnd(lastQry.file, 0))).trie

\* C29 amended: New on a file whose log ends in a record cut short returns
\* the error of load and no index: nothing is loaded, whatever complete
\* records come before.
C29_TruncatedTailRefused ==
    (lastQry.op = "New" /\ TruncatedTail(lastQry.file)) =>
        /\ lastQry.err # "nil"
        /\ lastQry.err = lastQry.load
        /\ opened = "failed"
        /\ trie = EmptyTrie
        /\ dataSize = 0

\* C29 witness: a file of two complete records and a third of which the size
\* and half of the item are there was refused
C29_RefusedAfterTwoRecords ==
    /\ lastQry.op = "New"
    /\ lastQry.file = Record(LogItemA) \o Record(LogItemB)
                        \o LE32(6) \o SubSeq(Marshal(LogItemB), 1, 3)
    /\ lastQry.err = "ErrLoad"
    /\ opened = "failed"

\* C30: load stops at the first zero size or at the end of the file, with
\* dataSize the total size of the records before it and no error; a nonzero
\* size that announces more bytes than the file has left makes load, and New,
\* return ErrLoad; a record that ends at the last byte of the file is replayed.
C30_ReplayStops ==
    lastQry.op = "New" =>
        LET f == lastQry.file
            e == WalkEnd(f, 0) IN
        /\ lastQry.dataSize <= Len(f)
        /\ CleanEnd(f) => (lastQry.load = "nil" /\ lastQry.dataSize = e)
        /\ TruncatedTail(f) => (lastQry.load = "ErrLoad" /\ lastQry.err = "ErrLoad")
        /\ (Len(f) = e /\ e > 0) => (lastQry.load = "nil" /\ lastQry.dataSize = Len(f))

----------------------------------------------------------------------------
\* Concurrent callers of one index with I/O failures; the background tasks are
\* goroutines, which the scheduler runs once they are started (SpecGrow).

\* what the callers put
GrowFields == {<<"a">>, <<"a", "b">>}
GrowValues == {1, NoValue}

InitGrow == IdxInit /\ DbIdle /\ nfault = MaxFaults /\ wire = NoWire /\ ConIdle

NextGrow ==
    \/ \E p \in Procs, f \in GrowFields, v \in GrowValues :
         nput < MaxConcPuts /\ PutBegin(p, f, v)
    \/ \E p \in Procs : SaveCheck(p)
    \/ \E p \in Procs : SaveAlloc(p)
    \/ \E p \in Procs : SavePre(p)
    \/ \E p \in Procs : SaveSpawn(p)
    \/ \E p \in Procs : SaveAppend(p)
    \/ \E p \in Procs : AddStep(p)
    \/ BgCheck
    \/ BgAlloc

SpecGrow ==
    InitGrow /\ [][NextGrow]_vars /\ WF_vars(BgCheck) /\ WF_vars(BgAlloc)

----------------------------------------------------------------------------
\* Properties of the background growth of the index.

\* background preallocateIfNeeded tasks started and not yet finished
InFlight == bgCheck + bgAlloc

\* C31: with concurrent callers of Put at most one background
\* preallocateIfNeeded task is in flight, and a caller that found the
\* allocating flag clear (line 394) still finds it clear when it sets it and
\* starts the task (lines 396-397).
C31_OneBackgroundTask ==
    /\ InFlight <= 1
    /\ \A p \in Procs : pc[p] = "save_spawn" => ~allocating

\* C32: whenever the allocating flag is set it is cleared later, whether
\* idx.allocate() succeeds, fails or is not called.
C32_FlagReleased == allocating ~> ~allocating

\* C32 witness: the growth of a background task has failed (no Put returned an
\* error, and the failure the environment had in store is used up); the flag
\* is clear, no task is in flight and the slack is below the threshold
C32_ClearedAfterFailure ==
    /\ nfault = 0
    /\ ops # << >>
    /\ \A i \in 1..Len(ops) : ops[i].res = "nil"
    /\ \A p \in Procs : Idle(p)
    /\ InFlight = 0
    /\ ~allocating
    /\ Len(file) - dataSize < PreallocThresh

----------------------------------------------------------------------------
\* Concurrent callers of one database and the retention tick, in the steps
\* that other goroutines can interleave with (SpecEpo).  getEpoch takes no
\* lock: db.epoMutex is created by New and Open and never locked.

\* epoch handles constructed over a run
MaxOpens == 3

\* timestamps the concurrent callers pass: an expired epoch, a read-only epoch
\* and the present, read-write one
EpoTimestamps == {0, 4, 8}

\* the cache getEpoch chose, lines 579-583
EpoCache(ro) == IF ro THEN roepochs ELSE rwepochs

\* getEpoch, lines 552-588: the mode, the cache, epochs.Get(ts)
EpoLookup(p, t) ==
    /\ dbOpen
    /\ epc[p] = "idle"
    /\ EpochStart(t) < MaxRW
    /\ LET ts == EpochStart(t)
           ro == IsReadOnly(ts)
           g == CacheGet(EpoCache(ro), ts)
       IN /\ IF ro THEN roepochs' = g.cache /\ UNCHANGED rwepochs
                   ELSE rwepochs' = g.cache /\ UNCHANGED roepochs
          /\ epc' = [epc EXCEPT ![p] = IF g.ok THEN "use" ELSE "new"]
          /\ ecall' = [ecall EXCEPT ![p] = [ts |-> ts, ro |-> ro, epo |-> g.epo]]
    /\ lastUse' = NoUse
    /\ UNCHANGED <<md, recovery, now, entries, pathExists, dbOpen, closedCh, retPc,
                   store, lastDb, lastTick, tick, live, nopen, retired, idxVars,
                   wire, nfault>>

\* getEpoch, lines 590-606: NewEpoch(options); an error is returned to the caller
EpoNew(p) ==
    /\ epc[p] = "new"
    /\ LET n == NewEpoch(Bundle, ecall[p].ts, ecall[p].ro)
           h == [ts |-> ecall[p].ts, ronly |-> ecall[p].ro, id |-> nopen + 1]
       IN IF n.ok
          THEN /\ entries' = n.S.entries
               /\ pathExists' = n.S.exists
               /\ store' = n.S.store
               /\ live' = live \cup {h}
               /\ nopen' = nopen + 1
               /\ epc' = [epc EXCEPT ![p] = "add"]
               /\ ecall' = [ecall EXCEPT ![p].epo = h]
          ELSE /\ epc' = [epc EXCEPT ![p] = "idle"]
               /\ ecall' = [ecall EXCEPT ![p] = NoEpoCall]
               /\ UNCHANGED <<entries, pathExists, store, live, nopen>>
    /\ lastUse' = NoUse
    /\ UNCHANGED <<md, recovery, roepochs, rwepochs, now, dbOpen, closedCh, retPc,
                   lastDb, lastTick, tick, retired, idxVars, wire, nfault>>

\* getEpoch, line 608: epochs.Add(ts, epo); evictFn closes what the cache drops
EpoAdd(p) ==
    /\ epc[p] = "add"
    /\ LET a == CacheAdd(EpoCache(ecall[p].ro), ecall[p].ts, ecall[p].epo)
       IN /\ IF ecall[p].ro THEN roepochs' = a.cache /\ UNCHANGED rwepochs
                            ELSE rwepochs' = a.cache /\ UNCHANGED roepochs
          /\ live' = live \ Elems(a.evicted)
    /\ epc' = [epc EXCEPT ![p] = "use"]
    /\ lastUse' = NoUse
    /\ UNCHANGED <<md, recovery, now, entries, pathExists, dbOpen, closedCh, retPc,
                   store, lastDb, lastTick, ecall, tick, nopen, retired, idxVars,
                   wire, nfault>>

\* Put, One or Get after getEpoch returned: epo.Put, epo.One or epo.Get on the
\* handle (lines 369, 415, 480); the use is recorded
EpoUse(p) ==
    /\ epc[p] = "use"
    /\ lastUse' = [op |-> "use", epo |-> ecall[p].epo,
                   open |-> ecall[p].epo \in live,
                   retired |-> ecall[p].epo \in retired]
    /\ epc' = [epc EXCEPT ![p] = "idle"]
    /\ ecall' = [ecall EXCEPT ![p] = NoEpoCall]
    /\ UNCHANGED <<dbVars, tick, live, nopen, retired, idxVars, wire, nfault>>

\* expire, lines 644-662: the listing of the directory; seen is what the
\* loop will not skip, removed and failed what it has done
TickStart ==
    /\ pathExists
    /\ tick.pc \in {"idle", "done"}
    /\ tick' = [pc |-> "loop", todo |-> Expired(entries, ExpireCutoff),
                seen |-> Expired(entries, ExpireCutoff), removed |-> {},
                failed |-> {}, name |-> << >>, ts |-> -1, epo |-> NoEpoch]
    /\ lastUse' = NoUse
    /\ UNCHANGED <<dbVars, epc, ecall, live, nopen, retired, idxVars, wire, nfault>>

\* expire, lines 664-683: the next entry the loop does not skip,
\* db.roepochs.Del(tsInt)
TickDel(name) ==
    /\ tick.pc = "loop"
    /\ name \in tick.todo
    /\ LET ts == ParseInt(TrimPrefix(name)).val
           d == CacheDel(roepochs, ts)
       IN /\ roepochs' = d.cache
          /\ tick' = [tick EXCEPT !.pc = IF d.ok THEN "close" ELSE "remove",
                                  !.todo = @ \ {name}, !.name = name, !.ts = ts,
                                  !.epo = d.epo]
    /\ lastUse' = NoUse
    /\ UNCHANGED <<md, recovery, rwepochs, now, entries, pathExists, dbOpen,
                   closedCh, retPc, store, lastDb, lastTick, epc, ecall, live, nopen,
                   retired, idxVars, wire, nfault>>

\* expire with a return in place of the continue of line 688
TickCloseReturns ==
    /\ tick.pc = "close"
    /\ \/ /\ live' = live \ {tick.epo}
          /\ retired' = retired \cup {tick.epo}
          /\ tick' = [tick EXCEPT !.pc = "remove"]
          /\ UNCHANGED nfault
       \/ /\ nfault > 0
          /\ nfault' = nfault - 1
          /\ tick' = [tick EXCEPT !.pc = "done", !.failed = @ \cup {tick.name}]
          /\ UNCHANGED <<live, retired>>
    /\ lastUse' = NoUse
    /\ UNCHANGED <<dbVars, epc, ecall, nopen, idxVars, wire>>

\* expire, lines 684-690: epo.Close(); after an error the loop continues with
\* the next entry
TickClose ==
    /\ tick.pc = "close"
    /\ \/ /\ live' = live \ {tick.epo}
          /\ retired' = retired \cup {tick.epo}
          /\ tick' = [tick EXCEPT !.pc = "remove"]
          /\ UNCHANGED nfault
       \/ /\ nfault > 0
          /\ nfault' = nfault - 1
          /\ tick' = [tick EXCEPT !.pc = "loop", !.failed = @ \cup {tick.name}]
          /\ UNCHANGED <<live, retired>>
    /\ lastUse' = NoUse
    /\ UNCHANGED <<dbVars, epc, ecall, nopen, idxVars, wire>>

\* expire, lines 692-699: os.RemoveAll(bpath); after an error the loop
\* continues with the next entry
TickRemove ==
    /\ tick.pc = "remove"
    /\ \/ /\ entries' = entries \ {tick.name}
          /\ store' = DropAll(store, {tick.ts})
          /\ tick' = [tick EXCEPT !.pc = "loop", !.removed = @ \cup {tick.name}]
          /\ UNCHANGED nfault
       \/ /\ nfault > 0
          /\ nfault' = nfault - 1
          /\ tick' = [tick EXCEPT !.pc = "loop", !.failed = @ \cup {tick.name}]
          /\ UNCHANGED <<entries, store>>
    /\ lastUse' = NoUse
    /\ UNCHANGED <<md, recovery, roepochs, rwepochs, now, pathExists, dbOpen,
                   closedCh, retPc, lastDb, lastTick, epc, ecall, live, nopen,
                   retired, idxVars, wire>>

\* expire, line 702: the loop has visited every entry of the listing
TickEnd ==
    /\ tick.pc = "loop"
    /\ tick.todo = {}
    /\ tick' = [tick EXCEPT !.pc = "done"]
    /\ lastUse' = NoUse
    /\ UNCHANGED <<dbVars, epc, ecall, live, nopen, retired, idxVars, wire, nfault>>

\* a database opened at time 8 on a directory that holds the epochs 0 and 4:
\* both are read-only; with a retention of 8 epoch 0 is expired, with a
\* retention of 4 both are
EpoInit ==
    /\ md \in {[Resolution |-> 2, Duration |-> 4, Retention |-> r, PayloadSize |-> 1,
                Path |-> "db", SegmentSize |-> 1,
                MaxROEpochs |-> 1, MaxRWEpochs |-> 1] : r \in {4, 8}}
    /\ recovery = FALSE
    /\ roepochs = NewCache(1)
    /\ rwepochs = NewCache(1)
    /\ now = 8
    /\ entries = OtherEntries \cup {EpochName(0), EpochName(4)}
    /\ pathExists = TRUE
    /\ dbOpen = TRUE
    /\ closedCh = FALSE
    /\ retPc = "select"
    /\ store = EmptyStore
    /\ lastDb = NoCall
    /\ lastTick = NoTick

InitEpo == IdxInit /\ EpoInit /\ nfault = MaxFaults /\ wire = NoWire /\ ConIdle

NextEpo ==
    \/ \E p \in Procs, t \in EpoTimestamps : nopen < MaxOpens /\ EpoLookup(p, t)
    \/ \E p \in Procs : EpoNew(p)
    \/ \E p \in Procs : EpoAdd(p)
    \/ \E p \in Procs : EpoUse(p)
    \/ TickStart
    \/ \E name \in entries : TickDel(name)
    \/ TickClose
    \/ TickRemove
    \/ TickEnd

SpecEpo == InitEpo /\ [][NextEpo]_vars

----------------------------------------------------------------------------
\* Properties of the database with concurrent callers (SpecEpo).

\* the handles a cache holds
Held(c) == {c.items[i].epo : i \in 1..Len(c.items)}

\* C33: of the handles that are open, no two are for the same epoch in the
\* same mode, and every handle a cache has dropped was closed: an open handle
\* is in its cache or in the hands of the call that constructed it and has
\* not added it yet.
C33_OneHandlePerEpoch ==
    /\ \A h, g \in live : (h.ts = g.ts /\ h.ronly = g.ronly) => h = g
    /\ \A h \in live :
         \/ h \in Held(roepochs) \cup Held(rwepochs)
         \/ \E p \in Procs : epc[p] = "add" /\ ecall[p].epo = h
         \/ tick.pc = "close" /\ tick.epo = h

\* C34: while concurrent calls read an expired read-only epoch, the RO cache
\* holds no handle of an epoch whose directory expire has deleted, and no call
\* uses a handle that expire has closed.
C34_RetentionAgainstReads ==
    /\ \A h \in Held(roepochs) : EpochName(h.ts) \in entries
    /\ lastUse.op = "use" => ~lastUse.retired

\* C35: in a retention tick a handle that expire took out of the RO cache is
\* out of the cache and still open (no eviction callback closed it) while its
\* directory exists when expire closes it; it is closed and its directory
\* still exists when expire deletes the directory; and at the end of the tick
\* every expired entry of the listing was either removed or had failed, so a
\* failure on one entry did not stop the loop.
C35_RetentionOrdering ==
    /\ tick.pc = "close" =>
         /\ tick.epo \notin Held(roepochs)
         /\ tick.epo \in live
         /\ tick.epo \notin retired
         /\ tick.name \in entries
    /\ (tick.pc = "remove" /\ tick.epo # NoEpoch) =>
         /\ tick.epo \notin Held(roepochs)
         /\ tick.epo \in retired
         /\ tick.epo \notin live
         /\ tick.name \in entries
    /\ tick.pc = "done" =>
         /\ tick.removed \cup tick.failed = tick.seen
         /\ tick.removed \cap tick.failed = {}
         /\ tick.removed \cap entries = {}

\* C35: a tick has ended in which one expired epoch failed and another, whose
\* handle was resident in the RO cache, was closed and removed
C35_FailureAndRemoval ==
    /\ tick.pc = "done"
    /\ tick.failed # {}
    /\ \E h \in retired : EpochName(h.ts) \in tick.removed

\* C36: every epoch a retention tick has deleted lies entirely at or before
\* now - retention: its last position, at ts + duration - resolution, is not
\* newer than that instant.
C36_RemovesOnlyOldData ==
    tick.pc # "idle" =>
        \A n \in tick.removed :
            ParseInt(TrimPrefix(n)).val + md.Duration - md.Resolution
                <= now - md.Retention

(***************************************************************************)
(* Puts at timestamps on both sides of zero, and reads of windows that end *)
(* inside an epoch or on an epoch boundary (SpecTs)                        *)
(***************************************************************************)

\* the timestamps of the Puts: two epochs before zero and one after it
SignedTimestamps == (0 - 2 * 4)..4

InitTs == IdxInit /\ ReadInit /\ nfault = 0 /\ wire = NoWire /\ ConIdle

\* the windows of the reads: within one epoch, ending on the boundary of the
\* next one, across two epochs, and across two epochs up to a boundary
BoundaryWindows == {<<0, 2>>, <<0, 4>>, <<2, 6>>, <<2, 8>>}

NextTs ==
    \/ \E t \in SignedTimestamps : DbPut(t, << <<"a">>, <<"b">> >>, <<1>>)
    \/ \E w \in BoundaryWindows : DbOne(w[1], w[2], << <<"a">>, <<"b">> >>)
    \/ \E w \in BoundaryWindows : DbGet(w[1], w[2], << <<"a">>, << >> >>)
    \/ \E d \in ClockSteps : ClockAdvance(d)

SpecTs == InitTs /\ [][NextTs]_vars

\* C37: a Put that returned nil selected the epoch with
\* epoch_ts <= T < epoch_ts + duration, epoch_ts a multiple of the duration,
\* and handed the epoch a position in 0 .. duration/resolution - 1. The
\* position is the 64-bit quotient before the conversion to uint32: the
\* conversion wraps exactly when the quotient is negative.
C37_TimestampArithmetic ==
    (lastDb.op = "Put" /\ lastDb.err = "nil") =>
        /\ lastDb.epo.ts <= lastDb.ts
        /\ lastDb.ts < lastDb.epo.ts + md.Duration
        /\ lastDb.epo.ts % md.Duration = 0
        /\ 0 <= lastDb.pos
        /\ lastDb.pos < md.Duration \div md.Resolution

\* the epochs that hold a point of the window [start, end) after both ends
\* are floored to the resolution
Intersecting(start, end) ==
    {e \in (0 - MaxTs)..MaxTs :
       /\ e % md.Duration = 0
       /\ e < end - GoMod(end, md.Resolution)
       /\ e + md.Duration > start - GoMod(start, md.Resolution)}

\* C38: a One or Get that returned nil has fetched exactly the epochs that
\* intersect its window, each once, and none for a contribution of no points.
C38_EpochsOfRangeRead ==
    (lastDb.op \in {"One", "Get"} /\ lastDb.err = "nil") =>
        /\ {lastDb.fetches[i].ts : i \in 1..Len(lastDb.fetches)}
               = Intersecting(lastDb.start, lastDb.end)
        /\ Len(lastDb.fetches) = Cardinality(Intersecting(lastDb.start, lastDb.end))

(***************************************************************************)
(* Properties of the trie                                                  *)
(***************************************************************************)

\* every node is linked under its parent, and its item carries the labels of
\* the edges that lead to it
TrieShape ==
    \A p \in DOMAIN trie :
        /\ trie[p].Fields = p
        /\ p # << >> => SubSeq(p, 1, Len(p) - 1) \in DOMAIN trie

\* what the add of a Put does to the trie: the nodes it creates lie on the
\* way to the item and, the item's own node apart, carry the sentinel; every
\* node there was stays, unchanged unless it is the item's node; an existing
\* node of the item keeps its fields and takes the new value
AddKeeps ==
    \A p \in Procs :
        (pc[p] = "add" /\ pc'[p] # "add") =>
            LET f == cur[p].fields IN
            /\ \A q \in DOMAIN trie' \ DOMAIN trie :
                   /\ Len(q) <= Len(f) /\ q = SubSeq(f, 1, Len(q))
                   /\ q # f => trie'[q].Value = NoValue
            /\ \A q \in DOMAIN trie :
                   /\ q \in DOMAIN trie'
                   /\ q # f => trie'[q] = trie[q]
            /\ f \in DOMAIN trie =>
                   /\ DOMAIN trie' = DOMAIN trie
                   /\ trie'[f].Fields = trie[f].Fields
            /\ trie'[f].Value = cur[p].value

\* C39: in every state, after Puts and replays of the log, the item of every
\* node carries exactly the labels of its path; a Put creates only
\* intermediate nodes with the no-value sentinel, and a Put on an existing
\* node changes the value of that node alone and keeps every other node.
C39_TriePaths == []TrieShape /\ [][AddKeeps]_vars

\* C39: after a replay of the log, a Put has given a value to the node [a],
\* which was an intermediate node with the child [a b]
C39_PromotedAfterReplay ==
    /\ session >= 2
    /\ lastPut.res = "nil"
    /\ lastPut.fields = <<"a">>
    /\ <<"a">> \in DOMAIN lastPut.preTrie
    /\ lastPut.preTrie[<<"a">>].Value = NoValue
    /\ <<"a", "b">> \in DOMAIN trie
    /\ trie[<<"a">>].Value = 1

====
